---- MODULE Spec2Model ----
(***************************************************************************)
(* Adaptive retrieval subsystem of the scraper: the engine selector        *)
(* (src/scrapers/engine_selector.py), the proxy pool                       *)
(* (src/proxy/proxy_pool.py), the rate limiter (src/protection/stealth.py),*)
(* the CAPTCHA solver (src/protection/captcha_solver.py) and the           *)
(* protection detector (src/protection/detector.py), each as a state       *)
(* machine.                                                                *)
(***************************************************************************)
EXTENDS Integers, Sequences, FiniteSets, TLC

(***************************************************************************)
(* Text.  A Python str is a sequence of one-character strings, so that     *)
(* str.lower() and the `in` substring test are computed, not assumed.      *)
(***************************************************************************)
UpperCase == <<"A","B","C","D","E","F","G","H","I","J","K","L","M","N","O","P","Q","R","S","T","U","V","W","X","Y","Z">>

LowerCase == <<"a","b","c","d","e","f","g","h","i","j","k","l","m","n","o","p","q","r","s","t","u","v","w","x","y","z">>

\* str.lower() on one character.
LowerChar(c) ==
  IF \E i \in 1..Len(UpperCase) : UpperCase[i] = c
  THEN LowerCase[CHOOSE i \in 1..Len(UpperCase) : UpperCase[i] = c]
  ELSE c

\* str.lower()
Lower(s) == [i \in 1..Len(s) |-> LowerChar(s[i])]

\* Python's `needle in hay` on strings.
Contains(hay, needle) ==
  \E i \in 0..(Len(hay) - Len(needle)) :
     \A j \in 1..Len(needle) : hay[i + j] = needle[j]

\* block_indicators of _is_blocked, in source order.
block_indicators ==
  << <<"c","f","-","b","r","o","w","s","e","r","-","v","e","r","i","f","i","c","a","t","i","o","n">>,
     <<"c","h","a","l","l","e","n","g","e","-","p","l","a","t","f","o","r","m">>,
     <<"c","a","p","t","c","h","a">>,
     <<"a","c","c","e","s","s"," ","d","e","n","i","e","d">>,
     <<"p","l","e","a","s","e"," ","w","a","i","t"," ","w","h","i","l","e"," ","w","e"," ","v","e","r","i","f","y">>,
     <<"c","h","e","c","k","i","n","g"," ","y","o","u","r"," ","b","r","o","w","s","e","r">>,
     <<"j","u","s","t"," ","a"," ","m","o","m","e","n","t">>,
     <<"d","d","o","s"," ","p","r","o","t","e","c","t","i","o","n">>,
     <<"b","o","t"," ","d","e","t","e","c","t","i","o","n">> >>

\* The response body '<p>News</p>'.
ArticleHtml == <<"<","p",">","N","e","w","s","<","/","p",">">>

\* The response body 'Just a moment...'.
JustAMoment == <<"J","u","s","t"," ","a"," ","m","o","m","e","n","t",".",".",".">>

\* The response body 'CAPTCHA'.
CaptchaPage == <<"C","A","P","T","C","H","A">>

\* The response body '<p>ok</p>'.
OtherArticle == <<"<","p",">","o","k","<","/","p",">">>

(***************************************************************************)
(* State.                                                                  *)
(***************************************************************************)
VARIABLES
  pc,              \* position of the smart_scrape call
  force_engine,    \* smart_scrape's argument force_engine
  retry_on_block,  \* smart_scrape's argument retry_on_block
  attempts,        \* the engine attempts of the call so far, in order
  pending,         \* the exception bound to `e` by `except Exception as e`
  result,          \* what the call returned or raised
  proxies,         \* ProxyPool._proxies
  banned,          \* ProxyPool._banned
  last,            \* the last ProxyPool operation, its arguments and its result
  lock,            \* ProxyPool._lock: the task that holds it, or NoLock
  tasks,           \* the concurrent callers of the pool: position, call, value read
  completed,       \* per proxy, the mark_success and mark_failure calls completed
  pool0,           \* the pool's proxies when the concurrent callers started
  rpm,             \* RateLimiter.rpm
  burst,           \* RateLimiter.burst
  tokens,          \* RateLimiter._tokens, in units of 1/TokenScale token
  last_refill,     \* RateLimiter._last_refill, in seconds
  now,             \* the event loop's clock, in seconds since the limiter was made
  callers,         \* the callers of acquire(): position and what each computed
  acquired,        \* how many acquire() calls have returned
  api_key,         \* CaptchaSolver.api_key
  solve_pc,        \* position of the solve_* call
  challenge,       \* which solve_* method was called
  posted,          \* the submission POSTs made to in.php, in order
  submit_data,     \* the JSON of the submission response
  task_id,         \* the task_id passed to _poll_result
  polls,           \* number of GETs made to res.php
  slept,           \* number of asyncio.sleep(interval) calls made
  poll_data,       \* the JSON of the latest poll response
  solved,          \* what the solve_* call returned or raised
  detect_pc,       \* position of the detect_protection call
  response,        \* the response to its GET, or NoResponse
  failure,         \* the exception its GET raised, or None
  detected,        \* what detect_protection returned or raised
  checked,         \* the response handed to the block-signature check, or NoResponse
  is_blocked,      \* what _is_blocked returned for its body, or None
  gate_mode,       \* which entry point made the semaphore: "bulk", "worker", or None
  limit,           \* the concurrency limit given by the caller
  sem,             \* the value of the asyncio.Semaphore
  fetches,         \* bulk fan-out: the state of the fetch of each submitted URL
  workers,         \* worker pool: the position of each worker() task
  queue,           \* worker pool: the number of jobs waiting in the Redis list
  cancelled_at,    \* the attempt in flight when the caller cancelled the fetch, or 0
  check_pc,        \* position of the check_all call
  next_idx,        \* check_all: the index the `for proxy in self._proxies` loop is at
  working,         \* check_all: its local counter working
  failed,          \* check_all: its local counter failed
  probes,          \* the check_proxy calls made by check_all, in order, with their outcome
  report,          \* the dict check_all returned, or NoReport
  dedup_pc,        \* position of the _deduplicate call
  results,         \* the list of results given to _deduplicate
  unique,          \* the list _deduplicate returned
  cf_pc,           \* position of the CloudflareBypass.bypass call
  bd_configured,   \* BrightDataScraper.is_configured()
  cf_tried,        \* the strategies the call has tried: name, outcome, whether a request was made
  cf_result        \* what bypass returned or raised

fetchVars == <<pc, force_engine, retry_on_block, attempts, pending, result>>

poolVars == <<proxies, banned, last>>

concVars == <<lock, tasks, completed, pool0>>

limiterVars == <<rpm, burst, tokens, last_refill, now, callers, acquired>>

captchaVars == <<api_key, solve_pc, challenge, posted, submit_data, task_id, polls, slept,
                 poll_data, solved>>

detectVars == <<detect_pc, response, failure, detected>>

checkVars == <<checked, is_blocked>>

gateVars == <<gate_mode, limit, sem, fetches, workers, queue>>

cancelVars == <<cancelled_at>>

healthVars == <<check_pc, next_idx, working, failed, probes, report>>

dedupVars == <<dedup_pc, results, unique>>

cfVars == <<cf_pc, bd_configured, cf_tried, cf_result>>

vars == <<pc, force_engine, retry_on_block, attempts, pending, result, proxies, banned, last,
          lock, tasks, completed, pool0,
          rpm, burst, tokens, last_refill, now, callers, acquired,
          api_key, solve_pc, challenge, posted, submit_data, task_id, polls, slept,
          poll_data, solved,
          detect_pc, response, failure, detected,
          checked, is_blocked,
          gate_mode, limit, sem, fetches, workers, queue,
          cancelled_at,
          check_pc, next_idx, working, failed, probes, report,
          dedup_pc, results, unique,
          cf_pc, bd_configured, cf_tried, cf_result>>

\* What the actions of one component leave alone: the other components' state.
notFetchVars == <<poolVars, concVars, limiterVars, captchaVars, detectVars, checkVars, gateVars, cancelVars, healthVars, dedupVars, cfVars>>

notPoolVars == <<fetchVars, concVars, limiterVars, captchaVars, detectVars, checkVars, gateVars, cancelVars, healthVars, dedupVars, cfVars>>

notPoolConcVars == <<fetchVars, limiterVars, captchaVars, detectVars, checkVars, gateVars, cancelVars, healthVars, dedupVars, cfVars>>

notLimiterVars == <<fetchVars, poolVars, concVars, captchaVars, detectVars, checkVars, gateVars, cancelVars, healthVars, dedupVars, cfVars>>

notCaptchaVars == <<fetchVars, poolVars, concVars, limiterVars, detectVars, checkVars, gateVars, cancelVars, healthVars, dedupVars, cfVars>>

notDetectVars == <<fetchVars, poolVars, concVars, limiterVars, captchaVars, checkVars, gateVars, cancelVars, healthVars, dedupVars, cfVars>>

notCheckVars == <<fetchVars, poolVars, concVars, limiterVars, captchaVars, detectVars, gateVars, cancelVars, healthVars, dedupVars, cfVars>>

notGateVars == <<fetchVars, poolVars, concVars, limiterVars, captchaVars, detectVars, checkVars, cancelVars, healthVars, dedupVars, cfVars>>

notCancelVars == <<fetchVars, poolVars, concVars, limiterVars, captchaVars, detectVars, checkVars, gateVars, healthVars, dedupVars, cfVars>>

notFetchCancelVars == <<poolVars, concVars, limiterVars, captchaVars, detectVars, checkVars, gateVars, healthVars, dedupVars, cfVars>>

notHealthVars == <<fetchVars, poolVars, concVars, limiterVars, captchaVars, detectVars, checkVars, gateVars, cancelVars, dedupVars, cfVars>>

notDedupVars == <<fetchVars, poolVars, concVars, limiterVars, captchaVars, detectVars, checkVars, gateVars, cancelVars, healthVars, cfVars>>

notCfVars == <<fetchVars, poolVars, concVars, limiterVars, captchaVars, detectVars, checkVars, gateVars, cancelVars, healthVars, dedupVars>>

(***************************************************************************)
(* Engine selector: src/scrapers/engine_selector.py                        *)
(***************************************************************************)
None == "None"

\* The values a caller passes as force_engine: the default and the documented ones.
ForceEngines == {None, "httpx", "curl", "playwright"}

NoExc == [tier |-> None, name |-> None]

Text(html) == [kind |-> "text", html |-> html, exc |-> NoExc]

Raised(tier, name) == [kind |-> "error", html |-> <<>>, exc |-> [tier |-> tier, name |-> name]]

\* What HttpxScraper.scrape can do: return response.text, or raise from
\* client.get (transport) or from raise_for_status (non-2xx).
HttpxScrape ==
  {Text(ArticleHtml), Text(JustAMoment), Text(CaptchaPage),
   Raised("httpx", "ConnectError"), Raised("httpx", "HTTPStatusError")}

\* What CurlCffiScraper.scrape can do: return response.text (no status check),
\* or raise ImportError or a transport error of session.get.
CurlScrape ==
  {Text(OtherArticle), Text(JustAMoment), Text(CaptchaPage),
   Raised("curl", "ImportError"), Raised("curl", "CurlError")}

\* _is_blocked without `html.lower()`.
IsBlockedCaseSensitive(html) ==
  \E k \in 1..Len(block_indicators) : Contains(html, block_indicators[k])

\* _is_blocked(html)
_is_blocked(html) ==
  LET html_lower == Lower(html)
  IN  \E k \in 1..Len(block_indicators) : Contains(html_lower, block_indicators[k])

\* Exception("Blocked by protection"), raised about the httpx response.
BlockedByProtection == [tier |-> "httpx", name |-> "Blocked by protection"]

NoResult == [kind |-> "none", html |-> <<>>, exc |-> NoExc]

Return(html) == [kind |-> "return", html |-> html, exc |-> NoExc]

Raise(e) == [kind |-> "raise", html |-> <<>>, exc |-> e]

\* The branch on force_engine: where the call goes first.
Dispatch(f) ==
  IF f = "httpx" THEN "forced_httpx"
  ELSE IF f = "curl" THEN "forced_curl"
  ELSE "try_httpx"

\* smart_scrape(url, force_engine, retry_on_block) is called.
Call ==
  /\ pc \in {"idle", "done"}
  /\ \E f \in ForceEngines, r \in BOOLEAN :
       /\ force_engine' = f
       /\ retry_on_block' = r
       /\ pc' = Dispatch(f)
  /\ attempts' = <<>>
  /\ pending' = NoExc
  /\ result' = NoResult
  /\ UNCHANGED notFetchVars

\* return await get_httpx_scraper().scrape(url)
ForcedHttpx ==
  /\ pc = "forced_httpx"
  /\ \E o \in HttpxScrape :
       /\ attempts' = Append(attempts, [engine |-> "httpx", outcome |-> o])
       /\ result' = IF o.kind = "text" THEN Return(o.html) ELSE Raise(o.exc)
  /\ pc' = "done"
  /\ UNCHANGED <<force_engine, retry_on_block, pending>>
  /\ UNCHANGED notFetchVars

\* return await get_curl_scraper().scrape(url)
ForcedCurl ==
  /\ pc = "forced_curl"
  /\ \E o \in CurlScrape :
       /\ attempts' = Append(attempts, [engine |-> "curl", outcome |-> o])
       /\ result' = IF o.kind = "text" THEN Return(o.html) ELSE Raise(o.exc)
  /\ pc' = "done"
  /\ UNCHANGED <<force_engine, retry_on_block, pending>>
  /\ UNCHANGED notFetchVars

\* Handler with the test of retry_on_block left out.
HandlerAlwaysRetries(e) ==
  /\ pc' = "handler_curl"
  /\ pending' = e
  /\ result' = result

\* except Exception as e: with retry_on_block go on to the curl_cffi attempt
\* of the handler, otherwise raise e.
Handler(e) ==
  IF retry_on_block
  THEN /\ pc' = "handler_curl"
       /\ pending' = e
       /\ result' = result
  ELSE /\ pc' = "done"
       /\ pending' = e
       /\ result' = Raise(e)

\* What follows a response text of the httpx attempt: the block check, then
\* escalation, the raise of "Blocked by protection", or return html.
OnHttpxText(html) ==
  IF _is_blocked(html)
  THEN IF retry_on_block
       THEN /\ pc' = "escalate_curl"
            /\ UNCHANGED <<pending, result>>
       ELSE Handler(BlockedByProtection)
  ELSE /\ pc' = "done"
       /\ result' = Return(html)
       /\ pending' = pending

\* try: html = await get_httpx_scraper().scrape(url) ...
TryHttpx ==
  /\ pc = "try_httpx"
  /\ \E o \in HttpxScrape :
       /\ attempts' = Append(attempts, [engine |-> "httpx", outcome |-> o])
       /\ IF o.kind = "text" THEN OnHttpxText(o.html) ELSE Handler(o.exc)
  /\ UNCHANGED <<force_engine, retry_on_block>>
  /\ UNCHANGED notFetchVars

\* EscalateCurl with `return html` in place of returning the curl response.
EscalateCurlReturnsHttpxHtml ==
  /\ pc = "escalate_curl"
  /\ \E o \in CurlScrape :
       /\ attempts' = Append(attempts, [engine |-> "curl", outcome |-> o])
       /\ IF o.kind = "text"
          THEN /\ pc' = "done"
               /\ result' = Return(attempts[1].outcome.html)
               /\ pending' = pending
          ELSE Handler(o.exc)
  /\ UNCHANGED <<force_engine, retry_on_block>>
  /\ UNCHANGED notFetchVars

\* return await get_curl_scraper().scrape(url), inside the try block: its
\* exception is caught by the same `except Exception as e`.
EscalateCurl ==
  /\ pc = "escalate_curl"
  /\ \E o \in CurlScrape :
       /\ attempts' = Append(attempts, [engine |-> "curl", outcome |-> o])
       /\ IF o.kind = "text"
          THEN /\ pc' = "done"
               /\ result' = Return(o.html)
               /\ pending' = pending
          ELSE Handler(o.exc)
  /\ UNCHANGED <<force_engine, retry_on_block>>
  /\ UNCHANGED notFetchVars

\* The handler's own attempt: try: return await get_curl_scraper().scrape(url)
\* except: pass, and then raise e.
HandlerCurl ==
  /\ pc = "handler_curl"
  /\ \E o \in CurlScrape :
       /\ attempts' = Append(attempts, [engine |-> "curl", outcome |-> o])
       /\ result' = IF o.kind = "text" THEN Return(o.html) ELSE Raise(pending)
  /\ pc' = "done"
  /\ UNCHANGED <<force_engine, retry_on_block, pending>>
  /\ UNCHANGED notFetchVars

NextFetch == Call \/ ForcedHttpx \/ ForcedCurl \/ TryHttpx \/ EscalateCurl \/ HandlerCurl

(***************************************************************************)
(* Proxy pool: src/proxy/proxy_pool.py                                     *)
(***************************************************************************)
\* Bounds of the model: the pool's size, and how many mark_failure and
\* mark_success calls a run makes in all.
MaxProxies == 2

MaxFailures == 6

MaxSuccesses == 1

\* "host:port" with its credentials, as one value.
Hosts == {"10.0.0.1:8080"}

Protocols == {"http", "socks5"}

Countries == {None, "US"}

\* Proxy(host, port, protocol=..., country=...): the dataclass defaults give
\* fail_count = 0 and success_count = 0.  last_used, which get_proxy writes
\* and nothing reads, is not part of the state.
Proxy(host, protocol, country) ==
  [host |-> host, protocol |-> protocol, country |-> country,
   fail_count |-> 0, success_count |-> 0]

NewProxies == {Proxy(h, pr, c) : h \in Hosts, pr \in Protocols, c \in Countries}

\* A URL that tells proxies of different countries apart.
UrlWithCountry(p) == <<p.protocol, "://", p.host, "#", p.country>>

\* Proxy.url: f"{protocol}://{auth}{host}:{port}"
url(p) == <<p.protocol, "://", p.host>>

\* success_rate without the `if total > 0` guard.
SuccessRateUnguarded(p) == <<p.success_count, p.success_count + p.fail_count>>

\* Proxy.success_rate as the exact fraction <<numerator, denominator>>.
success_rate(p) ==
  LET total == p.success_count + p.fail_count
  IN  IF total > 0 THEN <<p.success_count, total>> ELSE <<1, 2>>

\* a > b on fractions with positive denominators
RateGreater(a, b) == a[1] * b[2] > b[1] * a[2]

\* The threshold of get_proxy's filter and of mark_failure's ban.
BanThreshold == 5

\* The filter without its country test.
AvailableIgnoresCountry(i, country, protocol) ==
  /\ url(proxies[i]) \notin banned
  /\ proxies[i].protocol = protocol
  /\ proxies[i].fail_count < BanThreshold

\* The filter without its fail_count test.
AvailableByBanSetOnly(i, country, protocol) ==
  /\ url(proxies[i]) \notin banned
  /\ proxies[i].protocol = protocol
  /\ (country = None \/ proxies[i].country = country)

\* The filter of get_proxy's list comprehension, for the proxy at index i.
Available(i, country, protocol) ==
  /\ url(proxies[i]) \notin banned
  /\ proxies[i].protocol = protocol
  /\ (country = None \/ proxies[i].country = country)
  /\ proxies[i].fail_count < BanThreshold

\* available, as the indices into _proxies that pass the filter
available(country, protocol) ==
  {i \in 1..Len(proxies) : Available(i, country, protocol)}

\* available.sort(key=success_rate, reverse=True): the sort is stable, so
\* equal rates keep the pool's order.  Before(i, j): i is placed before j.
Before(i, j) ==
  \/ RateGreater(success_rate(proxies[i]), success_rate(proxies[j]))
  \/ /\ success_rate(proxies[i])[1] * success_rate(proxies[j])[2]
          = success_rate(proxies[j])[1] * success_rate(proxies[i])[2]
     /\ i < j

\* The position (from 1) of index i in the sorted list.
Rank(i, avail) == 1 + Cardinality({j \in avail : Before(j, i)})

\* The indices get_proxy may pick: random.choice(available[:3]) when
\* len(available) > 3, else available[0].
Choices(avail) ==
  IF Cardinality(avail) > 3
  THEN {i \in avail : Rank(i, avail) <= 3}
  ELSE {i \in avail : Rank(i, avail) = 1}

\* sum of p.fail_count over the pool
RECURSIVE TotalFailures(_)
TotalFailures(ps) ==
  IF ps = <<>> THEN 0 ELSE Head(ps).fail_count + TotalFailures(Tail(ps))

\* sum of p.success_count over the pool
RECURSIVE TotalSuccesses(_)
TotalSuccesses(ps) ==
  IF ps = <<>> THEN 0 ELSE Head(ps).success_count + TotalSuccesses(Tail(ps))

NoOp == [op |-> "init", proxy |-> 0, country |-> None, protocol |-> None, ret |-> 0]

\* add_proxy(proxy)
AddProxy ==
  /\ Len(proxies) < MaxProxies
  /\ \E p \in NewProxies : proxies' = Append(proxies, p)
  /\ last' = [NoOp EXCEPT !.op = "add_proxy"]
  /\ UNCHANGED banned
  /\ UNCHANGED notPoolVars

\* add_proxies(proxies): extend by a list of two or more
AddProxies ==
  /\ \E n \in 2..(MaxProxies - Len(proxies)) :
       \E ps \in [1..n -> NewProxies] : proxies' = proxies \o ps
  /\ last' = [NoOp EXCEPT !.op = "add_proxies"]
  /\ UNCHANGED banned
  /\ UNCHANGED notPoolVars

\* get_proxy(country, protocol); ret is the index of the proxy returned, and
\* ret = 0 stands for None
GetProxy ==
  /\ \E country \in Countries, protocol \in Protocols :
       LET avail == available(country, protocol)
       IN  IF avail = {}
           THEN last' = [op |-> "get_proxy", proxy |-> 0, country |-> country,
                         protocol |-> protocol, ret |-> 0]
           ELSE \E i \in Choices(avail) :
                  last' = [op |-> "get_proxy", proxy |-> 0, country |-> country,
                           protocol |-> protocol, ret |-> i]
  /\ UNCHANGED <<proxies, banned>>
  /\ UNCHANGED notPoolVars

\* mark_success(proxy), for a proxy of the pool
MarkSuccess ==
  /\ \E i \in 1..Len(proxies) :
       /\ TotalSuccesses(proxies) < MaxSuccesses
       /\ proxies' = [proxies EXCEPT ![i].success_count = @ + 1]
       /\ last' = [NoOp EXCEPT !.op = "mark_success", !.proxy = i]
  /\ UNCHANGED banned
  /\ UNCHANGED notPoolVars

\* Ban without the insertion into the ban set.
BanNever(p, n) == banned

\* Ban with > in place of >=.
BanOffByOne(p, n) == IF n > BanThreshold THEN banned \cup {url(p)} ELSE banned

\* The ban set after mark_failure has incremented p's fail_count to n.
Ban(p, n) == IF n >= BanThreshold THEN banned \cup {url(p)} ELSE banned

\* mark_failure(proxy), for a proxy of the pool
MarkFailure ==
  /\ \E i \in 1..Len(proxies) :
       /\ TotalFailures(proxies) < MaxFailures
       /\ proxies' = [proxies EXCEPT ![i].fail_count = @ + 1]
       /\ banned' = Ban(proxies[i], proxies[i].fail_count + 1)
       /\ last' = [NoOp EXCEPT !.op = "mark_failure", !.proxy = i]
  /\ UNCHANGED notPoolVars

\* clear_bans()
ClearBans ==
  /\ banned' = {}
  /\ last' = [NoOp EXCEPT !.op = "clear_bans"]
  /\ UNCHANGED proxies
  /\ UNCHANGED notPoolVars

NextPool == AddProxy \/ AddProxies \/ GetProxy \/ MarkSuccess \/ MarkFailure \/ ClearBans

(***************************************************************************)
(* Proxy pool under concurrent callers.  Each caller runs                  *)
(* `async with self._lock:` around its body; `x += 1` is a read and a      *)
(* write.  Callers interleave between any two steps, which includes every   *)
(* interleaving the event loop can produce.                                 *)
(***************************************************************************)
\* How many mark_success and mark_failure calls the callers make in all.
MaxConcCalls == 3

Tasks == {"t1", "t2"}

NoLock == "free"

IdleTask == [pc |-> "idle", op |-> None, proxy |-> 0, read |-> 0]

\* mark calls begun so far: the completed ones and those in progress
ConcCalls ==
  TotalSuccesses(completed) + TotalFailures(completed)
    + Cardinality({t \in Tasks : tasks[t].op \in {"mark_success", "mark_failure"}})

\* A caller calls mark_success(proxy), mark_failure(proxy) or get_proxy().
ConcBegin(t) ==
  /\ tasks[t].pc = "idle"
  /\ \/ /\ ConcCalls < MaxConcCalls
        /\ \E op \in {"mark_success", "mark_failure"}, i \in 1..Len(proxies) :
             tasks' = [tasks EXCEPT ![t] = [pc |-> "acquire", op |-> op, proxy |-> i, read |-> 0]]
     \/ tasks' = [tasks EXCEPT ![t] = [pc |-> "acquire", op |-> "get_proxy", proxy |-> 0, read |-> 0]]
  /\ UNCHANGED <<lock, completed, pool0>>
  /\ UNCHANGED <<poolVars, notPoolConcVars>>

\* __aenter__ that takes the lock whether or not it is free.
ConcAcquireWithoutWaiting(t) ==
  /\ tasks[t].pc = "acquire"
  /\ lock' = t
  /\ tasks' = [tasks EXCEPT ![t].pc = "locked"]
  /\ UNCHANGED <<completed, pool0>>
  /\ UNCHANGED <<poolVars, notPoolConcVars>>

\* async with self._lock: __aenter__ waits until the lock is free and takes it.
ConcAcquire(t) ==
  /\ tasks[t].pc = "acquire"
  /\ lock = NoLock
  /\ lock' = t
  /\ tasks' = [tasks EXCEPT ![t].pc = "locked"]
  /\ UNCHANGED <<completed, pool0>>
  /\ UNCHANGED <<poolVars, notPoolConcVars>>

\* The first step of the body: the read of `proxy.success_count += 1` or of
\* `proxy.fail_count += 1`, or the whole body of get_proxy() (country None,
\* protocol "http"), which writes nothing the model keeps but its result.
ConcRead(t) ==
  /\ tasks[t].pc = "locked"
  /\ IF tasks[t].op = "get_proxy"
     THEN /\ LET avail == available(None, "http")
             IN  IF avail = {}
                 THEN last' = [op |-> "get_proxy", proxy |-> 0, country |-> None,
                               protocol |-> "http", ret |-> 0]
                 ELSE \E i \in Choices(avail) :
                        last' = [op |-> "get_proxy", proxy |-> 0, country |-> None,
                                 protocol |-> "http", ret |-> i]
          /\ tasks' = [tasks EXCEPT ![t].pc = "release"]
     ELSE /\ tasks' = [tasks EXCEPT ![t].pc = "write",
                                    ![t].read = IF tasks[t].op = "mark_success"
                                                THEN proxies[tasks[t].proxy].success_count
                                                ELSE proxies[tasks[t].proxy].fail_count]
          /\ last' = last
  /\ UNCHANGED <<proxies, banned>>
  /\ UNCHANGED <<lock, completed, pool0>>
  /\ UNCHANGED notPoolConcVars

\* The write of `+= 1`, and for mark_failure the ban that follows it.
ConcWrite(t) ==
  /\ tasks[t].pc = "write"
  /\ LET i == tasks[t].proxy
         n == tasks[t].read + 1
     IN  IF tasks[t].op = "mark_success"
         THEN /\ proxies' = [proxies EXCEPT ![i].success_count = n]
              /\ banned' = banned
              /\ last' = [NoOp EXCEPT !.op = "mark_success", !.proxy = i]
         ELSE /\ proxies' = [proxies EXCEPT ![i].fail_count = n]
              /\ banned' = Ban(proxies[i], n)
              /\ last' = [NoOp EXCEPT !.op = "mark_failure", !.proxy = i]
  /\ tasks' = [tasks EXCEPT ![t].pc = "release"]
  /\ UNCHANGED <<lock, completed, pool0>>
  /\ UNCHANGED notPoolConcVars

\* __aexit__ releases the lock and the call returns.
ConcRelease(t) ==
  /\ tasks[t].pc = "release"
  /\ lock' = NoLock
  /\ completed' =
       IF tasks[t].op = "mark_success"
       THEN [completed EXCEPT ![tasks[t].proxy].success_count = @ + 1]
       ELSE IF tasks[t].op = "mark_failure"
       THEN [completed EXCEPT ![tasks[t].proxy].fail_count = @ + 1]
       ELSE completed
  /\ tasks' = [tasks EXCEPT ![t] = IdleTask]
  /\ UNCHANGED pool0
  /\ UNCHANGED <<poolVars, notPoolConcVars>>

\* clear_bans() is not a coroutine and takes no lock: one step, at any time.
NextConc ==
  \/ \E t \in Tasks : ConcBegin(t)
  \/ \E t \in Tasks : ConcAcquire(t)
  \/ \E t \in Tasks : ConcRead(t)
  \/ \E t \in Tasks : ConcWrite(t)
  \/ \E t \in Tasks : ConcRelease(t)
  \/ ClearBans

(***************************************************************************)
(* Rate limiter: src/protection/stealth.py, class RateLimiter.              *)
(* Time is in whole seconds and _tokens in units of 1/60 token, so that    *)
(* elapsed * (rpm / 60) and (1 - tokens) / (rpm / 60) are exact for the    *)
(* values of rpm below; floating-point rounding is not modelled.           *)
(***************************************************************************)
\* Bounds of the model: the largest burst_limit and the clock's last second.
MaxBurst == 2

MaxTime == 4

\* the 60 of `self.rpm / 60`
TokenScale == 60

\* requests_per_minute: the default 30 (half a token per second) and 60.
RpmValues == {30, 60}

Callers == {"c1", "c2"}

IdleCaller == [pc |-> "idle", at |-> 0, seen |-> 0, wait |-> 0]

Min(a, b) == IF a <= b THEN a ELSE b

\* refill = elapsed * (self.rpm / 60), in units of 1/TokenScale token
Refill(elapsed) == elapsed * rpm

\* self._tokens after `min(self.burst, self._tokens + refill)`
Refilled == Min(burst * TokenScale, tokens + Refill(now - last_refill))

\* a wait_time that is 0 for an empty bucket: tokens / (rpm / 60)
WaitTimeOfTokens(t) == t \div rpm

\* wait_time = (1 - self._tokens) / (self.rpm / 60), in seconds
WaitTime(t) == (TokenScale - t) \div rpm

\* acquire() up to its await: the refill, and either the decrement and the
\* return, or the start of asyncio.sleep(wait_time).
AcquireEnter(c) ==
  /\ callers[c].pc = "idle"
  /\ last_refill' = now
  /\ IF Refilled < TokenScale
     THEN /\ tokens' = Refilled
          /\ callers' = [callers EXCEPT ![c] =
                           [pc |-> "sleeping", at |-> now, seen |-> Refilled,
                            wait |-> WaitTime(Refilled)]]
          /\ acquired' = acquired
     ELSE /\ tokens' = Refilled - TokenScale
          /\ callers' = callers
          /\ acquired' = acquired + 1
  /\ UNCHANGED <<rpm, burst, now>>
  /\ UNCHANGED notLimiterVars

\* The end of acquire() without `self._tokens = 1`.
AcquireWakeWithoutReset(c) ==
  /\ callers[c].pc = "sleeping"
  /\ now >= callers[c].at + callers[c].wait
  /\ tokens' = tokens - TokenScale
  /\ callers' = [callers EXCEPT ![c] = IdleCaller]
  /\ acquired' = acquired + 1
  /\ UNCHANGED <<rpm, burst, now, last_refill>>
  /\ UNCHANGED notLimiterVars

\* asyncio.sleep(wait_time) is over: self._tokens = 1, self._tokens -= 1,
\* and acquire() returns.
AcquireWake(c) ==
  /\ callers[c].pc = "sleeping"
  /\ now >= callers[c].at + callers[c].wait
  /\ tokens' = TokenScale - TokenScale
  /\ callers' = [callers EXCEPT ![c] = IdleCaller]
  /\ acquired' = acquired + 1
  /\ UNCHANGED <<rpm, burst, now, last_refill>>
  /\ UNCHANGED notLimiterVars

\* A second passes on the event loop's clock.
Tick ==
  /\ now < MaxTime
  /\ now' = now + 1
  /\ UNCHANGED <<rpm, burst, tokens, last_refill, callers, acquired>>
  /\ UNCHANGED notLimiterVars

NextLimiter ==
  \/ \E c \in Callers : AcquireEnter(c)
  \/ \E c \in Callers : AcquireWake(c)
  \/ Tick

\* RateLimiter() with its default arguments, no acquire() call made.
LimiterDefault ==
  /\ rpm = 30
  /\ burst = 5
  /\ tokens = burst * TokenScale
  /\ last_refill = 0
  /\ now = 0
  /\ callers = [c \in Callers |-> IdleCaller]
  /\ acquired = 0

(***************************************************************************)
(* CAPTCHA solver: src/protection/captcha_solver.py, class CaptchaSolver.  *)
(* The 2Captcha service is the environment: every response is any JSON     *)
(* object {status, request}, or the HTTP call raises.                      *)
(***************************************************************************)
\* _poll_result's defaults
max_attempts == 60

interval == 3

NotReady == "CAPCHA_NOT_READY"

ApiKeys == {"", "KEY"}

Challenges == {"recaptcha_v2", "recaptcha_v3", "hcaptcha", "turnstile"}

\* the "method" and "version" fields each solve_* method posts
Submission(kind) ==
  CASE kind = "recaptcha_v2" -> [method |-> "userrecaptcha", version |-> None]
    [] kind = "recaptcha_v3" -> [method |-> "userrecaptcha", version |-> "v3"]
    [] kind = "hcaptcha"     -> [method |-> "hcaptcha", version |-> None]
    [] kind = "turnstile"    -> [method |-> "turnstile", version |-> None]

\* response.json(): "request" carries a task id, a token, the not-ready
\* sentinel or an error code, whatever "status" says
Data == [status : {0, 1},
         request : {"TASK", "TOKEN", NotReady, "ERROR_CAPTCHA_UNSOLVABLE"}]

NoData == [status |-> -1, request |-> None]

NotSolved == [kind |-> "none", value |-> None]

Returns(v) == [kind |-> "return", value |-> v]

TransportError == [kind |-> "raise", value |-> "httpx.HTTPError"]

is_configured == api_key # ""

\* no solve_* call has been made
SolverIdle ==
  /\ solve_pc = "idle"
  /\ challenge = None
  /\ posted = <<>>
  /\ submit_data = NoData
  /\ task_id = None
  /\ polls = 0
  /\ slept = 0
  /\ poll_data = NoData
  /\ solved = NotSolved

\* solve_recaptcha_v2 / solve_recaptcha_v3 / solve_hcaptcha / solve_turnstile
\* up to the POST: `if not self.is_configured(): return None`.
Solve(kind) ==
  /\ solve_pc = "idle"
  /\ challenge' = kind
  /\ IF is_configured
     THEN /\ solve_pc' = "posting"
          /\ solved' = solved
     ELSE /\ solve_pc' = "done"
          /\ solved' = Returns(None)
  /\ UNCHANGED <<api_key, posted, submit_data, task_id, polls, slept, poll_data>>
  /\ UNCHANGED notCaptchaVars

\* A submission whose status is not looked at.
OnSubmitDataAnyStatus(data) ==
  /\ solve_pc' = "polling"
  /\ task_id' = data.request
  /\ solved' = solved

\* `if data.get("status") != 1: return None`, else
\* `return await self._poll_result(data.get("request"))`
OnSubmitData(data) ==
  IF data.status # 1
  THEN /\ solve_pc' = "done"
       /\ task_id' = task_id
       /\ solved' = Returns(None)
  ELSE /\ solve_pc' = "polling"
       /\ task_id' = data.request
       /\ solved' = solved

\* `await self.client.post(.../in.php)` answers or raises.
Submit ==
  /\ solve_pc = "posting"
  /\ posted' = Append(posted, Submission(challenge))
  /\ \/ \E data \in Data :
          /\ submit_data' = data
          /\ OnSubmitData(data)
     \/ /\ solve_pc' = "done"
        /\ solved' = TransportError
        /\ UNCHANGED <<submit_data, task_id>>
  /\ UNCHANGED <<api_key, challenge, polls, slept, poll_data>>
  /\ UNCHANGED notCaptchaVars

\* A loop body that does not return on status == 1.
OnPollDataIgnoresReady(data) ==
  IF data.request # NotReady
  THEN /\ solve_pc' = "done"
       /\ solved' = Returns(None)
  ELSE /\ solve_pc' = IF polls + 1 < max_attempts THEN "polling" ELSE "done"
       /\ solved' = IF polls + 1 < max_attempts THEN solved ELSE Returns(None)

\* A loop body that polls again after any status other than 1.
OnPollDataRetriesErrors(data) ==
  IF data.status = 1
  THEN /\ solve_pc' = "done"
       /\ solved' = Returns(data.request)
  ELSE /\ solve_pc' = IF polls + 1 < max_attempts THEN "polling" ELSE "done"
       /\ solved' = IF polls + 1 < max_attempts THEN solved ELSE Returns(None)

\* The loop body after response.json(), and `return None` after the loop
\* when this was the last of the max_attempts iterations.
OnPollData(data) ==
  IF data.status = 1
  THEN /\ solve_pc' = "done"
       /\ solved' = Returns(data.request)
  ELSE IF data.request # NotReady
  THEN /\ solve_pc' = "done"
       /\ solved' = Returns(None)
  ELSE /\ solve_pc' = IF polls + 1 < max_attempts THEN "polling" ELSE "done"
       /\ solved' = IF polls + 1 < max_attempts THEN solved ELSE Returns(None)

\* One iteration of `for _ in range(max_attempts)`: asyncio.sleep(interval),
\* then the GET of res.php, which answers or raises.
Poll ==
  /\ solve_pc = "polling"
  /\ polls < max_attempts
  /\ slept' = slept + 1
  /\ polls' = polls + 1
  /\ \/ \E data \in Data :
          /\ poll_data' = data
          /\ OnPollData(data)
     \/ /\ solve_pc' = "done"
        /\ solved' = TransportError
        /\ poll_data' = NoData
  /\ UNCHANGED <<api_key, challenge, posted, submit_data, task_id>>
  /\ UNCHANGED notCaptchaVars

NextCaptcha ==
  \/ \E kind \in Challenges : Solve(kind)
  \/ Submit
  \/ Poll

(***************************************************************************)
(* Protection detector: src/protection/detector.py, detect_protection.     *)
(* The site is the environment: the GET answers with any of the responses  *)
(* below, or raises.                                                       *)
(***************************************************************************)
\* The headers a response may carry, as sent: name and value.
HeaderPool ==
  << [name |-> <<"C","F","-","R","A","Y">>, value |-> <<"8","a","1">>],
     [name |-> <<"C","F","-","C","a","c","h","e","-","S","t","a","t","u","s">>, value |-> <<"H","I","T">>],
     [name |-> <<"X","-","A","k","a","m","a","i","-","T","r","a","n","s","f","o","r","m","e","d">>, value |-> <<"9">>],
     [name |-> <<"X","-","P","X">>, value |-> <<"1">>],
     [name |-> <<"S","e","t","-","C","o","o","k","i","e">>, value |-> <<"_","p","x","h","d","=","1">>],
     [name |-> <<"S","e","t","-","C","o","o","k","i","e">>, value |-> <<"d","a","t","a","d","o","m","e","=","1">>] >>

\* The bodies a response may carry.
Bodies ==
  { ArticleHtml,
    <<"c","h","a","l","l","e","n","g","e","s",".","c","l","o","u","d","f","l","a","r","e",".","c","o","m">>,
    <<"G","-","R","e","c","a","p","t","c","h","a">>,
    <<"h","-","c","a","p","t","c","h","a">>,
    <<"P","e","r","i","m","e","t","e","r","X">>,
    <<"A","c","c","e","s","s"," ","D","e","n","i","e","d">>,
    <<"h","c","a","p","t","c","h","a"," ","r","e","c","a","p","t","c","h","a">>,
    <<"p","l","e","a","s","e"," ","v","e","r","i","f","y"," ","p","e","r","i","m","e","t","e","r","x">> }

RECURSIVE Pick(_, _)
\* the headers of the pool whose index is in S, in the pool's order
Pick(S, i) ==
  IF i > Len(HeaderPool) THEN <<>>
  ELSE IF i \in S THEN <<HeaderPool[i]>> \o Pick(S, i + 1)
  ELSE Pick(S, i + 1)

Responses ==
  { [headers |-> Pick(S, 1), text |-> b] : S \in SUBSET (1..Len(HeaderPool)), b \in Bodies }

NoResponse == [headers |-> <<>>, text |-> <<"-">>]

\* what client.get raises on a timeout, a DNS failure, a connection reset
TransportFailures == {"httpx.ConnectTimeout", "httpx.ConnectError", "httpx.ReadError"}

\* dict(response.headers): httpx gives the header names in lower case
HeaderDict(r) == [i \in 1..Len(r.headers) |->
                    [name |-> Lower(r.headers[i].name), value |-> r.headers[i].value]]

\* `key in headers`
HasKey(headers, key) == \E i \in 1..Len(headers) : headers[i].name = key

RECURSIVE StrOfDict(_)
\* str(headers) of a dict: 'name': 'value', for each entry
StrOfDict(headers) ==
  IF headers = <<>> THEN <<>>
  ELSE <<"'">> \o Head(headers).name \o <<"'", ":", " ", "'">> \o Head(headers).value
       \o <<"'", ",", " ">> \o StrOfDict(Tail(headers))

RECURSIVE StrOfCookies(_)
\* str(response.cookies): <Cookie name=value for host /> for each Set-Cookie
StrOfCookies(headers) ==
  IF headers = <<>> THEN <<>>
  ELSE (IF Head(headers).name = <<"s","e","t","-","c","o","o","k","i","e">>
        THEN <<"<","C","o","o","k","i","e"," ">> \o Head(headers).value \o <<" ","f","o","r"," ","e","x","a","m","p","l","e",".","c","o","m"," ","/",">">>
        ELSE <<>>)
       \o StrOfCookies(Tail(headers))

\* lines 50-61: the header and cookie checks, None when none matches
HeaderVerdict(r) ==
  IF HasKey(HeaderDict(r), <<"c","f","-","r","a","y">>) \/ HasKey(HeaderDict(r), <<"c","f","-","c","a","c","h","e","-","s","t","a","t","u","s">>)
  THEN "cloudflare"
  ELSE IF Contains(Lower(StrOfDict(HeaderDict(r))), <<"x","-","a","k","a","m","a","i">>)
  THEN "akamai"
  ELSE IF HasKey(HeaderDict(r), <<"x","-","p","x">>) \/ Contains(StrOfCookies(HeaderDict(r)), <<"_","p","x","h","d">>)
  THEN "perimeterx"
  ELSE IF Contains(Lower(StrOfDict(HeaderDict(r))), <<"d","a","t","a","d","o","m","e">>)
  THEN "datadome"
  ELSE None

\* the phrases of the generic blocking check
generic_phrases == {<<"a","c","c","e","s","s"," ","d","e","n","i","e","d">>, <<"b","o","t"," ","d","e","t","e","c","t","e","d">>, <<"p","l","e","a","s","e"," ","v","e","r","i","f","y">>}

\* lines 63-80: the checks of html = response.text.lower()
BodyVerdict(r) ==
  IF Contains(Lower(r.text), <<"c","h","a","l","l","e","n","g","e","s",".","c","l","o","u","d","f","l","a","r","e",".","c","o","m">>) \/ Contains(Lower(r.text), <<"c","f","-","b","r","o","w","s","e","r","-","v","e","r","i","f","i","c","a","t","i","o","n">>)
  THEN "cloudflare"
  ELSE IF Contains(Lower(r.text), <<"r","e","c","a","p","t","c","h","a">>) \/ Contains(Lower(r.text), <<"g","-","r","e","c","a","p","t","c","h","a">>)
  THEN "recaptcha"
  ELSE IF Contains(Lower(r.text), <<"h","c","a","p","t","c","h","a">>) \/ Contains(Lower(r.text), <<"h","-","c","a","p","t","c","h","a">>)
  THEN "hcaptcha"
  ELSE IF Contains(Lower(r.text), <<"p","e","r","i","m","e","t","e","r","x">>)
  THEN "perimeterx"
  ELSE IF \E x \in generic_phrases : Contains(Lower(r.text), x)
  THEN "unknown"
  ELSE "none"

\* A classification that looks at the body before the headers.
ClassifyBodyFirst(r) ==
  IF BodyVerdict(r) # "none" THEN BodyVerdict(r)
  ELSE IF HeaderVerdict(r) # None THEN HeaderVerdict(r)
  ELSE "none"

\* the ProtectionType detect_protection returns for a response
Classify(r) ==
  IF HeaderVerdict(r) # None THEN HeaderVerdict(r) ELSE BodyVerdict(r)

DetectorIdle ==
  /\ detect_pc = "idle"
  /\ response = NoResponse
  /\ failure = None
  /\ detected = NotSolved

\* detect_protection(url) issues its GET.
Detect ==
  /\ detect_pc = "idle"
  /\ detect_pc' = "probing"
  /\ UNCHANGED <<response, failure, detected>>
  /\ UNCHANGED notDetectVars

\* The GET answers and the response is classified.
OnResponse ==
  /\ detect_pc = "probing"
  /\ \E r \in Responses :
        /\ response' = r
        /\ detected' = Returns(Classify(r))
  /\ detect_pc' = "done"
  /\ UNCHANGED failure
  /\ UNCHANGED notDetectVars

\* A handler that lets the exception out.
ExceptReraises(e) == [kind |-> "raise", value |-> e]

\* `except Exception: return ProtectionType.UNKNOWN`
Except(e) == Returns("unknown")

\* The GET raises.
OnTransportFailure ==
  /\ detect_pc = "probing"
  /\ \E e \in TransportFailures :
        /\ failure' = e
        /\ detected' = Except(e)
  /\ detect_pc' = "done"
  /\ UNCHANGED response
  /\ UNCHANGED notDetectVars

NextDetect == Detect \/ OnResponse \/ OnTransportFailure

(***************************************************************************)
(* The block-signature check on its own: _is_blocked of                    *)
(* src/scrapers/engine_selector.py applied to the body of any response.    *)
(***************************************************************************)
\* str.upper() on one character.
UpperChar(c) ==
  IF \E i \in 1..Len(LowerCase) : LowerCase[i] = c
  THEN UpperCase[CHOOSE i \in 1..Len(LowerCase) : LowerCase[i] = c]
  ELSE c

\* str.upper()
Upper(s) == [i \in 1..Len(s) |-> UpperChar(s[i])]

\* str.capitalize() of a lower-case string
Capitalize(s) == [i \in 1..Len(s) |-> IF i = 1 THEN UpperChar(s[i]) ELSE s[i]]

\* HTTP statuses of the responses checked
Statuses == {200, 403, 429, 503}

\* Bodies without any indicator, some one character short of one.
CleanBodies ==
  { ArticleHtml, OtherArticle, <<>>,
    <<"j","u","s","t"," ","a"," ","m","o","m","e","n">>,
    <<"c","a","p","t","c","h"," ","a">>,
    <<"a","c","c","e","s","s"," "," ","d","e","n","i","e","d">> }

\* Bodies that carry an indicator: as it is, in capitals, and capitalized
\* inside a paragraph.
ChallengeBodies ==
  UNION { { block_indicators[k],
            Upper(block_indicators[k]),
            <<"<","p",">">> \o Capitalize(block_indicators[k]) \o <<".",".",".","<","/","p",">">> }
          : k \in 1..Len(block_indicators) }

CheckedResponses ==
  [status : Statuses, text : CleanBodies \cup ChallengeBodies \cup {JustAMoment}]

\* no response has been checked
CheckIdle ==
  /\ checked = NoResponse
  /\ is_blocked = None

\* _is_blocked(html) is called with the body of a response.
CheckResponse ==
  /\ checked = NoResponse
  /\ \E r \in CheckedResponses :
        /\ checked' = r
        /\ is_blocked' = _is_blocked(r.text)
  /\ UNCHANGED notCheckVars

NextCheck == CheckResponse

(***************************************************************************)
(* Concurrency limit: src/optimization/parallel.py (run_with_semaphore,    *)
(* scrape_urls_parallel) and src/worker.py (run_worker).                   *)
(***************************************************************************)
\* Bounds of the model: the largest limit, and the most URLs and jobs.
MaxLimit == 3

MaxUrls == 4

MaxJobs == 3

\* no semaphore has been made
GateIdle ==
  /\ gate_mode = None
  /\ limit = 1
  /\ sem = 1
  /\ fetches = <<>>
  /\ workers = <<>>
  /\ queue = 0

\* the fetches running inside `async with semaphore`
InFlight ==
  Cardinality({u \in DOMAIN fetches : fetches[u] = "in_flight"})
  + Cardinality({w \in DOMAIN workers : workers[w] = "processing"})

\* A fetch that starts without acquiring the semaphore.
BulkStartWithoutSemaphore(u) ==
  /\ gate_mode = "bulk"
  /\ u \in DOMAIN fetches
  /\ fetches[u] = "pending"
  /\ fetches' = [fetches EXCEPT ![u] = "in_flight"]
  /\ sem' = sem - 1
  /\ UNCHANGED <<gate_mode, limit, workers, queue>>
  /\ UNCHANGED notGateVars

\* `async with semaphore:` is entered by fetch(url) / limited(coro), and
\* scrape_func(url) / the coroutine starts.
BulkStart(u) ==
  /\ gate_mode = "bulk"
  /\ u \in DOMAIN fetches
  /\ fetches[u] = "pending"
  /\ sem > 0
  /\ fetches' = [fetches EXCEPT ![u] = "in_flight"]
  /\ sem' = sem - 1
  /\ UNCHANGED <<gate_mode, limit, workers, queue>>
  /\ UNCHANGED notGateVars

\* The fetch returns or raises, and `async with` releases the semaphore.
BulkFinish(u) ==
  /\ gate_mode = "bulk"
  /\ u \in DOMAIN fetches
  /\ fetches[u] = "in_flight"
  /\ fetches' = [fetches EXCEPT ![u] = "done"]
  /\ sem' = sem + 1
  /\ UNCHANGED <<gate_mode, limit, workers, queue>>
  /\ UNCHANGED notGateVars

\* worker(): `async with semaphore:` is entered and blpop is awaited.
WorkerEnter(w) ==
  /\ gate_mode = "worker"
  /\ w \in DOMAIN workers
  /\ workers[w] = "outside"
  /\ sem > 0
  /\ workers' = [workers EXCEPT ![w] = "popping"]
  /\ sem' = sem - 1
  /\ UNCHANGED <<gate_mode, limit, fetches, queue>>
  /\ UNCHANGED notGateVars

\* blpop returns a job and process_job(job) starts.
WorkerPop(w) ==
  /\ gate_mode = "worker"
  /\ w \in DOMAIN workers
  /\ workers[w] = "popping"
  /\ queue > 0
  /\ workers' = [workers EXCEPT ![w] = "processing"]
  /\ queue' = queue - 1
  /\ UNCHANGED <<gate_mode, limit, sem, fetches>>
  /\ UNCHANGED notGateVars

\* blpop times out on an empty list, or raises and the handler sleeps; the
\* semaphore is released and the loop goes round.
WorkerPopNothing(w) ==
  /\ gate_mode = "worker"
  /\ w \in DOMAIN workers
  /\ workers[w] = "popping"
  /\ workers' = [workers EXCEPT ![w] = "outside"]
  /\ sem' = sem + 1
  /\ UNCHANGED <<gate_mode, limit, fetches, queue>>
  /\ UNCHANGED notGateVars

\* process_job returns, the result is pushed (or the push raises), and the
\* semaphore is released.
WorkerFinish(w) ==
  /\ gate_mode = "worker"
  /\ w \in DOMAIN workers
  /\ workers[w] = "processing"
  /\ workers' = [workers EXCEPT ![w] = "outside"]
  /\ sem' = sem + 1
  /\ UNCHANGED <<gate_mode, limit, fetches, queue>>
  /\ UNCHANGED notGateVars

NextGate ==
  \/ \E u \in 1..MaxUrls : BulkStart(u)
  \/ \E u \in 1..MaxUrls : BulkFinish(u)
  \/ \E w \in 1..MaxLimit : WorkerEnter(w)
  \/ \E w \in 1..MaxLimit : WorkerPop(w)
  \/ \E w \in 1..MaxLimit : WorkerPopNothing(w)
  \/ \E w \in 1..MaxLimit : WorkerFinish(w)

(***************************************************************************)
(* Cancellation of a smart_scrape call by its caller: task.cancel() raises *)
(* asyncio.CancelledError, a BaseException, at the await in flight.        *)
(***************************************************************************)
NotCancelled == cancelled_at = 0

CancelledError(tier) == [tier |-> tier, name |-> "CancelledError"]

\* the attempt that was in flight when the cancellation arrived
CancelledAttempt(engine) ==
  [engine |-> engine, outcome |-> Raised(engine, "CancelledError")]

\* Cancelled during `return await get_httpx_scraper().scrape(url)` or
\* `return await get_curl_scraper().scrape(url)` of a forced engine: no
\* handler is around it.
CancelForced ==
  /\ NotCancelled
  /\ pc \in {"forced_httpx", "forced_curl"}
  /\ attempts' = Append(attempts, CancelledAttempt(force_engine))
  /\ cancelled_at' = Len(attempts) + 1
  /\ result' = Raise(CancelledError(force_engine))
  /\ pc' = "done"
  /\ UNCHANGED <<force_engine, retry_on_block, pending>>
  /\ UNCHANGED notFetchCancelVars

\* Cancelled during the httpx attempt of line 63: `except Exception` does
\* not catch a BaseException.
CancelTryHttpx ==
  /\ NotCancelled
  /\ pc = "try_httpx"
  /\ attempts' = Append(attempts, CancelledAttempt("httpx"))
  /\ cancelled_at' = Len(attempts) + 1
  /\ result' = Raise(CancelledError("httpx"))
  /\ pc' = "done"
  /\ UNCHANGED <<force_engine, retry_on_block, pending>>
  /\ UNCHANGED notFetchCancelVars

\* Cancelled during the curl_cffi attempt of line 69, inside the try block.
CancelEscalateCurl ==
  /\ NotCancelled
  /\ pc = "escalate_curl"
  /\ attempts' = Append(attempts, CancelledAttempt("curl"))
  /\ cancelled_at' = Len(attempts) + 1
  /\ result' = Raise(CancelledError("curl"))
  /\ pc' = "done"
  /\ UNCHANGED <<force_engine, retry_on_block, pending>>
  /\ UNCHANGED notFetchCancelVars

\* Cancelled during the handler's curl_cffi attempt of line 79: the bare
\* `except: pass` catches the CancelledError, and `raise e` follows.
CancelHandlerCurl ==
  /\ NotCancelled
  /\ pc = "handler_curl"
  /\ attempts' = Append(attempts, CancelledAttempt("curl"))
  /\ cancelled_at' = Len(attempts) + 1
  /\ result' = Raise(pending)
  /\ pc' = "done"
  /\ UNCHANGED <<force_engine, retry_on_block, pending>>
  /\ UNCHANGED notFetchCancelVars

\* smart_scrape is called, by a caller that has not cancelled a fetch.
CallUncancelled == NotCancelled /\ Call

NextCancel ==
  \/ CallUncancelled
  \/ ForcedHttpx \/ ForcedCurl \/ TryHttpx \/ EscalateCurl \/ HandlerCurl
  \/ CancelForced \/ CancelTryHttpx \/ CancelEscalateCurl \/ CancelHandlerCurl

(***************************************************************************)
(* Proxy health check: ProxyPool.check_proxy and check_all of              *)
(* src/proxy/proxy_pool.py, with add_proxy and clear_bans calls of other   *)
(* tasks between the probes.                                               *)
(***************************************************************************)
\* Bound of the model: the largest pool check_all starts on.
MaxHealthPool == 3

\* What the GET through a proxy can do.
ProbeOutcomes == {"status 200", "status 407", "raises"}

NoReport == [total |-> -1, working |-> -1, failed |-> -1, banned |-> -1]

\* no check_all call has been made
HealthIdle ==
  /\ check_pc = "idle"
  /\ next_idx = 0
  /\ working = 0
  /\ failed = 0
  /\ probes = <<>>
  /\ report = NoReport

\* A check_proxy that takes any response for a working proxy.
CheckProxyAnyResponse(o) == o # "raises"

\* check_proxy(proxy): response.status_code == 200, and False when the
\* request raises
check_proxy(o) == o = "status 200"

\* the dict check_all returns after w working and f failed probes
Report(w, f) ==
  [total |-> Len(proxies), working |-> w, failed |-> f, banned |-> Cardinality(banned)]

\* check_all() up to its first await: the counters are zeroed, and on an
\* empty pool the report is returned at once.
CheckAll ==
  /\ check_pc = "idle"
  /\ working' = 0
  /\ failed' = 0
  /\ probes' = <<>>
  /\ next_idx' = 1
  /\ IF proxies = <<>>
     THEN /\ check_pc' = "done"
          /\ report' = Report(0, 0)
     ELSE /\ check_pc' = "probing"
          /\ report' = report
  /\ UNCHANGED notHealthVars

\* `await self.check_proxy(proxy)` ends for the proxy the loop is at; the
\* counter is incremented, and after the last proxy of the list the report is
\* returned.
Probe ==
  /\ check_pc = "probing"
  /\ \E o \in ProbeOutcomes :
        LET w == IF check_proxy(o) THEN working + 1 ELSE working
            f == IF check_proxy(o) THEN failed ELSE failed + 1
        IN  /\ probes' = Append(probes, [proxy |-> next_idx, outcome |-> o])
            /\ working' = w
            /\ failed' = f
            /\ next_idx' = next_idx + 1
            /\ IF next_idx + 1 > Len(proxies)
               THEN /\ check_pc' = "done"
                    /\ report' = Report(w, f)
               ELSE /\ check_pc' = "probing"
                    /\ report' = report
  /\ UNCHANGED notHealthVars

NextHealth == CheckAll \/ Probe \/ AddProxy \/ ClearBans

(***************************************************************************)
(* Result deduplication: BrainLayer._deduplicate and _normalize_url of     *)
(* src/brain/brain_layer.py.                                               *)
(***************************************************************************)
\* Bound of the model: the longest list of results.
MaxResults == 3

\* The URLs of the results: one page written with and without a trailing
\* slash, a query string, both, and capitals; another page; and no URL.
ResultUrls ==
  { <<"x",".","i","o","/","p">>,
    <<"x",".","i","o","/","p","/">>,
    <<"x",".","i","o","/","p","?","r","=","1">>,
    <<"x",".","i","o","/","p","/","?","r","=","1">>,
    <<"X",".","i","o","/","P"," ">>,
    <<"x",".","i","o","/","q">>,
    <<>> }

\* str.strip(): leading and trailing blanks removed
RECURSIVE Strip(_)
Strip(s) ==
  IF s = <<>> THEN s
  ELSE IF Head(s) = " " THEN Strip(Tail(s))
  ELSE IF s[Len(s)] = " " THEN Strip(SubSeq(s, 1, Len(s) - 1))
  ELSE s

\* url.split("?")[0]: what precedes the first "?"
BeforeQuery(s) ==
  IF \E i \in 1..Len(s) : s[i] = "?"
  THEN SubSeq(s, 1, (CHOOSE i \in 1..Len(s) : s[i] = "?" /\ \A j \in 1..(i - 1) : s[j] # "?") - 1)
  ELSE s

\* url[:-1] when url.endswith("/")
WithoutTrailingSlash(s) ==
  IF s # <<>> /\ s[Len(s)] = "/" THEN SubSeq(s, 1, Len(s) - 1) ELSE s

\* _normalize_url(url): lower and strip, then the trailing slash, then the
\* query string
_normalize_url(u) == BeforeQuery(WithoutTrailingSlash(Strip(Lower(u))))

RECURSIVE Deduplicate(_, _)
\* the loop of _deduplicate over the rest of the results, with seen_urls
Deduplicate(rest, seen_urls) ==
  IF rest = <<>> THEN <<>>
  ELSE LET u == _normalize_url(Head(rest).url)
       IN  IF u # <<>> /\ u \notin seen_urls
           THEN <<Head(rest)>> \o Deduplicate(Tail(rest), seen_urls \cup {u})
           ELSE Deduplicate(Tail(rest), seen_urls)

\* _deduplicate(results)
_deduplicate(rs) == Deduplicate(rs, {})

\* _deduplicate has not been called
DedupIdle ==
  /\ dedup_pc = "idle"
  /\ results = <<>>
  /\ unique = <<>>

\* self._deduplicate(results) is called and returns.
CallDeduplicate ==
  /\ dedup_pc = "called"
  /\ unique' = _deduplicate(results)
  /\ dedup_pc' = "done"
  /\ UNCHANGED results
  /\ UNCHANGED notDedupVars

NextDedup == CallDeduplicate

(***************************************************************************)
(* Cloudflare bypass: CloudflareBypass.bypass of                           *)
(* src/protection/cloudflare.py.                                           *)
(***************************************************************************)
\* indicators of _is_cf_challenge, in source order.
cf_indicators ==
  << <<"c","f","-","b","r","o","w","s","e","r","-","v","e","r","i","f","i","c","a","t","i","o","n">>,
     <<"c","h","a","l","l","e","n","g","e","-","p","l","a","t","f","o","r","m">>,
     <<"J","u","s","t"," ","a"," ","m","o","m","e","n","t",".",".",".">>,
     <<"C","h","e","c","k","i","n","g"," ","y","o","u","r"," ","b","r","o","w","s","e","r">>,
     <<"c","f","-","s","p","i","n","n","e","r">>,
     <<"c","f","_","c","a","p","t","c","h","a","_","c","o","n","t","a","i","n","e","r">> >>

\* _is_cf_challenge(html): any(ind in html for ind in indicators)
_is_cf_challenge(html) ==
  \E k \in 1..Len(cf_indicators) : Contains(html, cf_indicators[k])

\* What a strategy's request can give: a page (a plain one, a challenge page
\* or an empty body), or an exception.
Pages == {ArticleHtml, JustAMoment, <<>>}

Page(html) == [kind |-> "text", html |-> html]

NoPage == [kind |-> "none", html |-> <<>>]

Raises == [kind |-> "raises", html |-> <<>>]

RequestOutcomes == {Page(h) : h \in Pages} \cup {Raises}

\* _try_curl_cffi and _try_cloudscraper: None when the library is missing,
\* else the outcome of the request.
LibraryOutcomes == RequestOutcomes \cup {NoPage}

\* _try_flaresolverr: the solution's response, or None for everything else,
\* exceptions included (bare except of lines 122-125).
FlareSolverrOutcome(o) == IF o.kind = "text" THEN o ELSE NoPage

\* `if result`: a non-empty str
Truthy(o) == o.kind = "text" /\ o.html # <<>>

\* the test of lines 54 and 62
Accepted(o) == Truthy(o)

\* the test of lines 38 and 46
AcceptedUnlessChallenge(o) == Truthy(o) /\ ~_is_cf_challenge(o.html)

Tried(name, o, request) == [strategy |-> name, outcome |-> o, request |-> request]

NoBypassResult == [kind |-> "none", html |-> <<>>]

\* bypass has not been called
BypassIdle ==
  /\ cf_pc = "idle"
  /\ bd_configured = FALSE
  /\ cf_tried = <<>>
  /\ cf_result = NoBypassResult

\* One strategy of bypass: the awaited _try_ call with outcome o, then the
\* return of its result when the strategy's test accepts it, else the next
\* strategy.
Strategy(name, o, request, accepted, next) ==
  /\ cf_tried' = Append(cf_tried, Tried(name, o, request))
  /\ IF accepted
     THEN /\ cf_result' = [kind |-> "return", html |-> o.html]
          /\ cf_pc' = "done"
     ELSE /\ cf_result' = cf_result
          /\ cf_pc' = next
  /\ UNCHANGED bd_configured
  /\ UNCHANGED notCfVars

\* bypass(url) is called.
Bypass ==
  /\ cf_pc = "called"
  /\ cf_pc' = "curl_cffi"
  /\ UNCHANGED <<bd_configured, cf_tried, cf_result>>
  /\ UNCHANGED notCfVars

\* Strategy 1, lines 36-41.
TryCurlCffi ==
  /\ cf_pc = "curl_cffi"
  /\ \E o \in LibraryOutcomes :
       Strategy("curl_cffi", o, o # NoPage, AcceptedUnlessChallenge(o), "cloudscraper")

\* Strategy 2, lines 44-49.
TryCloudscraper ==
  /\ cf_pc = "cloudscraper"
  /\ \E o \in LibraryOutcomes :
       Strategy("cloudscraper", o, o # NoPage, AcceptedUnlessChallenge(o), "flaresolverr")

\* Strategy 3, lines 52-57.
TryFlaresolverr ==
  /\ cf_pc = "flaresolverr"
  /\ \E o \in RequestOutcomes :
       Strategy("flaresolverr", FlareSolverrOutcome(o), TRUE,
                Accepted(FlareSolverrOutcome(o)), "bright_data")

\* Strategy 4, lines 60-65: no request unless Bright Data is configured.
TryBrightData ==
  /\ cf_pc = "bright_data"
  /\ IF bd_configured
     THEN \E o \in RequestOutcomes :
             Strategy("bright_data", o, TRUE, Accepted(o), "failed")
     ELSE Strategy("bright_data", NoPage, FALSE, FALSE, "failed")

\* raise Exception("All Cloudflare bypass strategies failed")
AllFailed ==
  /\ cf_pc = "failed"
  /\ cf_result' = [kind |-> "raise", html |-> <<>>]
  /\ cf_pc' = "done"
  /\ UNCHANGED <<bd_configured, cf_tried>>
  /\ UNCHANGED notCfVars

NextBypass ==
  \/ Bypass
  \/ TryCurlCffi
  \/ TryCloudscraper
  \/ TryFlaresolverr
  \/ TryBrightData
  \/ AllFailed

(***************************************************************************)
(* Specifications.                                                         *)
(***************************************************************************)
Init ==
  /\ pc = "idle"
  /\ force_engine = None
  /\ retry_on_block = TRUE
  /\ attempts = <<>>
  /\ pending = NoExc
  /\ result = NoResult
  /\ proxies = <<>>
  /\ banned = {}
  /\ last = NoOp
  /\ lock = NoLock
  /\ tasks = [t \in Tasks |-> IdleTask]
  /\ completed = <<>>
  /\ pool0 = <<>>
  /\ LimiterDefault
  /\ api_key = ""
  /\ SolverIdle
  /\ DetectorIdle
  /\ CheckIdle
  /\ GateIdle
  /\ NotCancelled
  /\ HealthIdle
  /\ DedupIdle
  /\ BypassIdle

Next == NextFetch \/ NextPool

Spec == Init /\ [][Next]_vars

\* One smart_scrape call after another.
SpecFetch == Init /\ [][NextFetch]_vars

\* Any sequence of ProxyPool operations.
SpecPool == Init /\ [][NextPool]_vars

(***************************************************************************)
(* get_proxy's ranking, over pools of up to MaxRankPool proxies whose      *)
(* counters have already been marked up to MaxRankCount.                   *)
(***************************************************************************)
MaxRankPool == 4

MaxRankCount == 1

\* A proxy of the pool after some mark_success and mark_failure calls.
RankedProxies ==
  {[Proxy(h, "http", None) EXCEPT !.fail_count = f, !.success_count = s] :
     h \in Hosts, f \in 0..MaxRankCount, s \in 0..MaxRankCount}

InitRank ==
  /\ pc = "idle"
  /\ force_engine = None
  /\ retry_on_block = TRUE
  /\ attempts = <<>>
  /\ pending = NoExc
  /\ result = NoResult
  /\ \E n \in 0..MaxRankPool : proxies \in [1..n -> RankedProxies]
  /\ banned = {}
  /\ last = NoOp
  /\ lock = NoLock
  /\ tasks = [t \in Tasks |-> IdleTask]
  /\ completed = <<>>
  /\ pool0 = <<>>
  /\ LimiterDefault
  /\ api_key = ""
  /\ SolverIdle
  /\ DetectorIdle
  /\ CheckIdle
  /\ GateIdle
  /\ NotCancelled
  /\ HealthIdle
  /\ DedupIdle
  /\ BypassIdle

\* The pool the concurrent callers find: two proxies, the first of them
\* fresh or four failures old.
InitConc ==
  /\ pc = "idle"
  /\ force_engine = None
  /\ retry_on_block = TRUE
  /\ attempts = <<>>
  /\ pending = NoExc
  /\ result = NoResult
  /\ \E f \in {0, BanThreshold - 1} :
       proxies = << [Proxy("10.0.0.1:8080", "http", None) EXCEPT !.fail_count = f],
                    Proxy("10.0.0.1:8080", "socks5", "US") >>
  /\ banned = {}
  /\ last = NoOp
  /\ lock = NoLock
  /\ tasks = [t \in Tasks |-> IdleTask]
  /\ completed = [i \in 1..2 |-> [fail_count |-> 0, success_count |-> 0]]
  /\ pool0 = proxies
  /\ LimiterDefault
  /\ api_key = ""
  /\ SolverIdle
  /\ DetectorIdle
  /\ CheckIdle
  /\ GateIdle
  /\ NotCancelled
  /\ HealthIdle
  /\ DedupIdle
  /\ BypassIdle

\* Concurrent mark_success, mark_failure, get_proxy and clear_bans calls.
SpecConc == InitConc /\ [][NextConc]_vars

\* No smart_scrape call, an empty proxy pool and no concurrent pool callers.
ScraperAndPoolAtRest ==
  /\ pc = "idle"
  /\ force_engine = None
  /\ retry_on_block = TRUE
  /\ attempts = <<>>
  /\ pending = NoExc
  /\ result = NoResult
  /\ proxies = <<>>
  /\ banned = {}
  /\ last = NoOp
  /\ lock = NoLock
  /\ tasks = [t \in Tasks |-> IdleTask]
  /\ completed = <<>>
  /\ pool0 = <<>>

\* RateLimiter(requests_per_minute, burst_limit) has just been constructed.
InitLimiter ==
  /\ ScraperAndPoolAtRest
  /\ rpm \in RpmValues
  /\ burst \in 1..MaxBurst
  /\ tokens = burst * TokenScale
  /\ last_refill = 0
  /\ now = 0
  /\ callers = [c \in Callers |-> IdleCaller]
  /\ acquired = 0
  /\ api_key = ""
  /\ SolverIdle
  /\ DetectorIdle
  /\ CheckIdle
  /\ GateIdle
  /\ NotCancelled
  /\ HealthIdle
  /\ DedupIdle
  /\ BypassIdle

\* CaptchaSolver() has been constructed from the configuration, with or
\* without a 2Captcha API key.
InitCaptcha ==
  /\ ScraperAndPoolAtRest
  /\ LimiterDefault
  /\ api_key \in ApiKeys
  /\ SolverIdle
  /\ DetectorIdle
  /\ CheckIdle
  /\ GateIdle
  /\ NotCancelled
  /\ HealthIdle
  /\ DedupIdle
  /\ BypassIdle

\* No detect_protection call has been made.
InitDetect ==
  /\ ScraperAndPoolAtRest
  /\ LimiterDefault
  /\ api_key = ""
  /\ SolverIdle
  /\ DetectorIdle
  /\ CheckIdle
  /\ GateIdle
  /\ NotCancelled
  /\ HealthIdle
  /\ DedupIdle
  /\ BypassIdle

\* One detect_protection call against any response or failure of the site.
SpecDetect == InitDetect /\ [][NextDetect]_vars

\* One solve_* call on a CaptchaSolver against any behaviour of the service.
SpecCaptcha == InitCaptcha /\ [][NextCaptcha]_vars

\* Concurrent acquire() calls on one RateLimiter as time passes.
SpecLimiter == InitLimiter /\ [][NextLimiter]_vars

\* get_proxy calls on such a pool.
SpecRank == InitRank /\ [][GetProxy]_vars

\* No response has been handed to the block-signature check.
InitCheck ==
  /\ ScraperAndPoolAtRest
  /\ LimiterDefault
  /\ api_key = ""
  /\ SolverIdle
  /\ DetectorIdle
  /\ CheckIdle
  /\ GateIdle
  /\ NotCancelled
  /\ HealthIdle
  /\ DedupIdle
  /\ BypassIdle

\* _is_blocked applied to the bodies of responses of any status.
SpecCheck == InitCheck /\ [][NextCheck]_vars

\* asyncio.Semaphore(limit) has been made and the fetches or the workers
\* created: scrape_urls_parallel / run_with_semaphore over any number of
\* URLs, or run_worker over a list with any number of jobs.
InitGate ==
  /\ ScraperAndPoolAtRest
  /\ LimiterDefault
  /\ api_key = ""
  /\ SolverIdle
  /\ DetectorIdle
  /\ CheckIdle
  /\ NotCancelled
  /\ HealthIdle
  /\ DedupIdle
  /\ BypassIdle
  /\ limit \in 1..MaxLimit
  /\ sem = limit
  /\ \/ /\ gate_mode = "bulk"
        /\ \E n \in 0..MaxUrls : fetches = [u \in 1..n |-> "pending"]
        /\ workers = <<>>
        /\ queue = 0
     \/ /\ gate_mode = "worker"
        /\ fetches = <<>>
        /\ workers = [w \in 1..limit |-> "outside"]
        /\ queue \in 0..MaxJobs

\* The event loop runs every ready task, a started fetch ends, and Redis
\* does not fail for ever.
FairGate ==
  /\ \A u \in 1..MaxUrls : WF_vars(BulkStart(u)) /\ WF_vars(BulkFinish(u))
  /\ \A w \in 1..MaxLimit :
        /\ WF_vars(WorkerEnter(w))
        /\ SF_vars(WorkerPop(w))
        /\ WF_vars(WorkerFinish(w))

\* Fetches under a concurrency limit.
SpecGate == InitGate /\ [][NextGate]_vars /\ FairGate

\* smart_scrape calls that their caller may cancel while an attempt is in
\* flight.
SpecCancel == Init /\ [][NextCancel]_vars

\* A proxy of the pool, fresh or banned after five failures.
HealthProxies ==
  {[Proxy(h, "http", None) EXCEPT !.fail_count = f] : h \in Hosts, f \in {0, BanThreshold}}

\* A pool of any size, with the bans its failure counts have caused.
InitHealth ==
  /\ pc = "idle"
  /\ force_engine = None
  /\ retry_on_block = TRUE
  /\ attempts = <<>>
  /\ pending = NoExc
  /\ result = NoResult
  /\ \E n \in 0..MaxHealthPool : proxies \in [1..n -> HealthProxies]
  /\ banned = {url(proxies[i]) : i \in {j \in 1..Len(proxies) : proxies[j].fail_count >= BanThreshold}}
  /\ last = NoOp
  /\ lock = NoLock
  /\ tasks = [t \in Tasks |-> IdleTask]
  /\ completed = <<>>
  /\ pool0 = <<>>
  /\ LimiterDefault
  /\ api_key = ""
  /\ SolverIdle
  /\ DetectorIdle
  /\ CheckIdle
  /\ GateIdle
  /\ NotCancelled
  /\ HealthIdle
  /\ DedupIdle
  /\ BypassIdle

\* One check_all call, with add_proxy and clear_bans calls around its probes.
SpecHealth == InitHealth /\ [][NextHealth]_vars

\* Any list of results, each with its url and its place in the list, is
\* about to be deduplicated.
InitDedup ==
  /\ ScraperAndPoolAtRest
  /\ LimiterDefault
  /\ api_key = ""
  /\ SolverIdle
  /\ DetectorIdle
  /\ CheckIdle
  /\ GateIdle
  /\ NotCancelled
  /\ HealthIdle
  /\ BypassIdle
  /\ dedup_pc = "called"
  /\ \E n \in 0..MaxResults :
        \E urls \in [1..n -> ResultUrls] :
           results = [k \in 1..n |-> [url |-> urls[k], place |-> k]]
  /\ unique = <<>>

\* _deduplicate applied to any list of results.
SpecDedup == InitDedup /\ [][NextDedup]_vars

\* One caller issues acquire() calls one after the other while time passes.
NextSingleCaller ==
  \/ AcquireEnter("c1")
  \/ AcquireWake("c1")
  \/ Tick

\* The rate limiter used by a single caller.
SpecSingleCaller == InitLimiter /\ [][NextSingleCaller]_vars

\* bypass is about to be called, with Bright Data configured or not.
InitBypass ==
  /\ ScraperAndPoolAtRest
  /\ LimiterDefault
  /\ api_key = ""
  /\ SolverIdle
  /\ DetectorIdle
  /\ CheckIdle
  /\ GateIdle
  /\ NotCancelled
  /\ HealthIdle
  /\ DedupIdle
  /\ cf_pc = "called"
  /\ bd_configured \in BOOLEAN
  /\ cf_tried = <<>>
  /\ cf_result = NoBypassResult

\* One call of CloudflareBypass.bypass.
SpecBypass == InitBypass /\ [][NextBypass]_vars

(***************************************************************************)
(* Properties of the engine selector.                                      *)
(***************************************************************************)
\* An attempt whose response text matches the block-signature check.
Blocked(a) == a.outcome.kind = "text" /\ _is_blocked(a.outcome.html)

\* An attempt that raised.
Failed(a) == a.outcome.kind = "error"

\* An attempt that is neither Blocked nor an error.
Succeeded(a) == a.outcome.kind = "text" /\ ~_is_blocked(a.outcome.html)

\* The tiers of the escalation ladder, cheapest first.
Ladder == <<"httpx", "curl", "playwright", "bright_data">>

TierIndex(engine) == CHOOSE t \in 1..Len(Ladder) : Ladder[t] = engine

\* The per-tier outcomes an exception of the model carries: the tier it was
\* raised for, and nothing else (no exception is chained or attached).
Reasons(e) == {e.tier}

\* C1: in a call without a forced engine and with escalation enabled, if the
\* first k attempts were Blocked and attempt k+1 succeeded, then attempt k+1
\* was made on ladder tier k+1, the call has returned exactly that attempt's
\* content, and no attempt follows it.
C1_FirstSuccessAfterBlocksIsReturned ==
  (force_engine = None /\ retry_on_block) =>
    \A k \in 0..(Len(attempts) - 1) :
      ((\A i \in 1..k : Blocked(attempts[i])) /\ Succeeded(attempts[k + 1])) =>
        /\ \A i \in 1..(k + 1) : attempts[i].engine = Ladder[i]
        /\ pc = "done"
        /\ result = Return(attempts[k + 1].outcome.html)
        /\ Len(attempts) = k + 1

\* The httpx attempt was Blocked, the curl attempt succeeded and its content
\* was returned.
C1_Witness ==
  /\ pc = "done"
  /\ force_engine = None
  /\ retry_on_block
  /\ Len(attempts) = 2
  /\ Blocked(attempts[1])
  /\ Succeeded(attempts[2])
  /\ result = Return(OtherArticle)

\* C2: with escalation enabled, content returned to the caller never matches
\* the block-signature check.
C2_ReturnedContentIsNotBlocked ==
  (pc = "done" /\ force_engine = None /\ retry_on_block /\ result.kind = "return")
    => ~_is_blocked(result.html)

\* C3: within one call the attempts go strictly up the ladder, so no tier is
\* attempted twice.
C3_LadderIsMonotonic ==
  \A i, j \in 1..Len(attempts) :
    i < j => TierIndex(attempts[i].engine) < TierIndex(attempts[j].engine)

\* C4: with a forced engine only that engine is attempted, and a Blocked
\* response or an error from it ends the call with a raised error.
C4_ForcedEngineIsTheOnlyOneAndFailsTerminally ==
  (force_engine # None) =>
    /\ \A i \in 1..Len(attempts) : attempts[i].engine = force_engine
    /\ (pc = "done" /\ ~Succeeded(attempts[Len(attempts)])) => result.kind = "raise"

\* C5: when a call ends with an error after every attempt failed or was
\* Blocked, the error carries the outcome of each tier that was attempted.
C5_ExhaustionErrorEnumeratesEveryTier ==
  (pc = "done" /\ result.kind = "raise"
     /\ \A i \in 1..Len(attempts) : ~Succeeded(attempts[i]))
    => \A i \in 1..Len(attempts) : attempts[i].engine \in Reasons(result.exc)

\* C6: without a forced engine and with retry_on_block = False the only
\* attempt is one httpx attempt; the call returns its content if it is not
\* blocked, raises if it is blocked, and re-raises the httpx error if it failed.
C6_NoRetryMakesOneHttpxAttempt ==
  (force_engine = None /\ ~retry_on_block) =>
    /\ Len(attempts) <= 1
    /\ \A i \in 1..Len(attempts) : attempts[i].engine = "httpx"
    /\ pc = "done" =>
         /\ Len(attempts) = 1
         /\ Succeeded(attempts[1]) => result = Return(attempts[1].outcome.html)
         /\ Blocked(attempts[1]) => result = Raise(BlockedByProtection)
         /\ Failed(attempts[1]) => result = Raise(attempts[1].outcome.exc)

\* A call with retry_on_block = False whose httpx response was blocked has
\* raised.
C6_Witness ==
  /\ pc = "done"
  /\ force_engine = None
  /\ ~retry_on_block
  /\ Len(attempts) = 1
  /\ Blocked(attempts[1])
  /\ result.kind = "raise"

(***************************************************************************)
(* Properties of the proxy pool.                                           *)
(***************************************************************************)
\* C7 as claimed: a proxy of the pool is banned iff its fail_count >= 5.
C7_BannedIffFiveFailures ==
  \A i \in 1..Len(proxies) :
    (url(proxies[i]) \in banned) <=> (proxies[i].fail_count >= 5)

\* C7, amended: a proxy of the pool is banned only if a proxy with its URL
\* has fail_count >= 5; the mark_failure that brings fail_count to 5 or more
\* bans the proxy, and a proxy with fail_count >= 5 that is banned stays so
\* through every operation other than clear_bans.
C7_BannedOnlyByFiveFailuresUntilCleared ==
  /\ [](\A i \in 1..Len(proxies) :
          (url(proxies[i]) \in banned) =>
             \E j \in 1..Len(proxies) :
                url(proxies[j]) = url(proxies[i]) /\ proxies[j].fail_count >= 5)
  /\ [][\A i \in 1..Len(proxies) :
          /\ (last'.op = "mark_failure" /\ last'.proxy = i /\ proxies'[i].fail_count >= 5)
               => url(proxies'[i]) \in banned'
          /\ (proxies[i].fail_count >= 5 /\ url(proxies[i]) \in banned
                /\ last'.op # "clear_bans")
               => (proxies'[i].fail_count >= 5 /\ url(proxies'[i]) \in banned')]_vars

\* The fifth mark_failure on a proxy has just banned it.
C7_Witness ==
  /\ last.op = "mark_failure"
  /\ proxies[last.proxy].fail_count = 5
  /\ url(proxies[last.proxy]) \in banned

\* C8: get_proxy returns a proxy only if it is not banned, has the requested
\* protocol, has the requested country when one is given and has
\* fail_count < 5; it returns None exactly when no proxy of the pool does.
C8_GetReturnsOnlyEligible ==
  (last.op = "get_proxy") =>
    LET Ok(i) == /\ url(proxies[i]) \notin banned
                 /\ proxies[i].protocol = last.protocol
                 /\ (last.country = None \/ proxies[i].country = last.country)
                 /\ proxies[i].fail_count < 5
    IN  /\ last.ret # 0 => (last.ret \in 1..Len(proxies) /\ Ok(last.ret))
        /\ last.ret = 0 <=> ~\E i \in 1..Len(proxies) : Ok(i)

\* get_proxy("US", "http") returned a proxy while the pool also holds a
\* proxy it had to pass over.
C8_Witness ==
  /\ last.op = "get_proxy"
  /\ last.country = "US"
  /\ last.ret # 0
  /\ \E i \in 1..Len(proxies) : proxies[i].country # "US" /\ proxies[i].protocol = last.protocol

C10_SuccessRateInUnitInterval ==
  \A i \in 1..Len(proxies) :
    LET r == success_rate(proxies[i])
    IN  /\ r[2] > 0
        /\ 0 <= r[1]
        /\ r[1] <= r[2]
        /\ (proxies[i].success_count + proxies[i].fail_count = 0) => 2 * r[1] = r[2]

\* The pool holds a proxy with both successes and failures and one with no
\* observation.
C10_Witness ==
  /\ \E i \in 1..Len(proxies) :
       proxies[i].success_count > 0 /\ proxies[i].fail_count > 0
  /\ \E i \in 1..Len(proxies) :
       proxies[i].success_count + proxies[i].fail_count = 0

\* C11: get_proxy ranks the eligible proxies by success_rate, descending;
\* a call that found three or more eligible could return any of the first
\* three of the ranking, and a call that found one or two returns the first.
C11_AnyOfTopThreeFromThreeEligible ==
  (last.op = "get_proxy") =>
    LET avail == available(last.country, last.protocol)
        n == Cardinality(avail)
    IN  /\ n >= 3 => Choices(avail) = {i \in avail : Rank(i, avail) <= 3}
        /\ n \in 1..2 => Choices(avail) = {i \in avail : Rank(i, avail) = 1}
        /\ n >= 1 => last.ret \in Choices(avail)

(***************************************************************************)
(* Properties of the proxy pool under concurrent callers.                  *)
(***************************************************************************)
\* A step that changes a counter of some proxy.
CounterMutation ==
  \E i \in 1..Len(proxies) :
    \/ proxies'[i].success_count # proxies[i].success_count
    \/ proxies'[i].fail_count # proxies[i].fail_count

\* The mark calls on proxy i that have written and not yet returned.
Written(i, op) ==
  Cardinality({t \in Tasks :
                 tasks[t].pc = "release" /\ tasks[t].op = op /\ tasks[t].proxy = i})

\* After n completed mark_success and m completed mark_failure calls on a
\* proxy (and those that have written and not yet returned) its counters
\* have grown by exactly that many.
NoLostIncrement ==
  \A i \in 1..Len(proxies) :
    /\ proxies[i].success_count
         = pool0[i].success_count + completed[i].success_count + Written(i, "mark_success")
    /\ proxies[i].fail_count
         = pool0[i].fail_count + completed[i].fail_count + Written(i, "mark_failure")

\* C12 as claimed: every step that changes a counter or the ban set, the
\* clearing included, is taken while the pool's lock is held; and no
\* increment is lost.
C12_EveryMutationUnderTheLock ==
  /\ []NoLostIncrement
  /\ [][(CounterMutation \/ banned' # banned) => lock # NoLock]_vars

\* C12, amended: every step that changes a counter or inserts into the ban
\* set is taken by the task that holds the pool's lock, and no increment is
\* lost; clear_bans() empties the ban set in one step without the lock.
C12_CountersAndBansUnderTheLock ==
  /\ []NoLostIncrement
  /\ [][(CounterMutation \/ ~(banned' \subseteq banned)) =>
          \E t \in Tasks : lock = t /\ lock' = t /\ tasks[t].pc = "write"]_vars
  /\ [][(banned' # banned /\ banned' \subseteq banned) =>
          (banned' = {} /\ last'.op = "clear_bans" /\ UNCHANGED <<proxies, lock, tasks>>)]_vars

\* Both callers have completed a mark on the first proxy, one of them the
\* mark_failure that banned it, and both increments are there.
C12_Witness ==
  /\ \A t \in Tasks : tasks[t].pc = "idle"
  /\ completed[1].success_count = 1
  /\ completed[1].fail_count = 1
  /\ proxies[1].success_count = pool0[1].success_count + 1
  /\ proxies[1].fail_count = BanThreshold
  /\ url(proxies[1]) \in banned

(***************************************************************************)
(* Rate limiter claims, over SpecLimiter.                                  *)
(***************************************************************************)
Sleeping(c) == callers[c].pc = "sleeping"

\* C13: in every state between steps of acquire(), callers asleep in its
\* wait included and with several concurrent callers, the stored token count
\* is at least 0 and at most burst_limit.
C13_TokensWithinBurst ==
  /\ 0 <= tokens
  /\ tokens <= burst * TokenScale

\* Two callers are asleep inside acquire() over a fraction of a token.
C13_Witness ==
  /\ \A c \in Callers : Sleeping(c)
  /\ 0 < tokens
  /\ tokens < TokenScale

\* C14: after burst_limit acquire() calls with no time elapsing, the next
\* acquire() does not return at once; it sleeps for (1 - tokens)/refill_rate,
\* which is one refill period 60/rpm, more than zero, and can return exactly
\* when that wait is over.
C14_DrainedBucketWaitsOneRefillPeriod ==
  /\ now = 0 => acquired <= burst
  /\ \A c \in Callers :
        Sleeping(c) /\ callers[c].at = 0 =>
          /\ acquired >= burst
          /\ callers[c].seen = 0
          /\ callers[c].wait * rpm = TokenScale - callers[c].seen
          /\ callers[c].wait * rpm = TokenScale
          /\ callers[c].wait > 0
          /\ (ENABLED AcquireWake(c)) <=> (now >= callers[c].wait)

\* The bucket was drained at second 0 and the next caller sleeps.
C14_Witness ==
  /\ now = 0
  /\ acquired = burst
  /\ tokens = 0
  /\ \E c \in Callers : Sleeping(c) /\ callers[c].at = 0

\* C15: each caller's refill, wait and decrement are one exclusive section:
\* while one caller is between its refill and its decrement, no other caller
\* is inside acquire().
C15_AcquireIsExclusive ==
  Cardinality({c \in Callers : Sleeping(c)}) <= 1

(***************************************************************************)
(* CAPTCHA solver claims, over SpecCaptcha.                                *)
(***************************************************************************)
Polled == polls > 0 /\ poll_data # NoData

\* a step that issues a poll request
PollIssued == polls' = polls + 1

\* C16: _poll_result returns the token of the first poll response whose
\* status is 1 and polls no further; it makes at most max_attempts polls,
\* one per interval, so it never waits more than max_attempts * interval;
\* and after max_attempts not-ready responses it returns None.
C16_PollReturnsFirstReadyWithinMaxAttempts ==
  /\ [](/\ polls <= max_attempts
        /\ slept = polls
        /\ slept * interval <= max_attempts * interval
        /\ Polled /\ poll_data.status = 1 =>
              solve_pc = "done" /\ solved = Returns(poll_data.request)
        /\ Polled /\ polls = max_attempts /\ poll_data.status # 1
              /\ poll_data.request = NotReady =>
              solve_pc = "done" /\ solved = Returns(None))
  /\ [][PollIssued => polls < max_attempts /\ poll_data.status # 1
                       /\ solved = NotSolved]_vars

\* The service answered not-ready and then ready: the token is returned
\* after two polls.
C16_Witness ==
  /\ polls = 2
  /\ poll_data = [status |-> 1, request |-> "TOKEN"]
  /\ solved = Returns("TOKEN")

\* Every one of the max_attempts polls was answered not-ready.
C16_TimeoutWitness ==
  /\ polls = max_attempts
  /\ poll_data = [status |-> 0, request |-> NotReady]
  /\ solved = Returns(None)

\* C17: a poll response whose status is not 1 keeps the loop going only when
\* its request field is the not-ready sentinel; with any other request value
\* polling ends at once with None and no further poll is issued.
C17_OnlyNotReadyIsRetried ==
  /\ [](Polled /\ poll_data.status # 1 =>
          /\ solve_pc = "polling" => poll_data.request = NotReady
          /\ poll_data.request # NotReady =>
                solve_pc = "done" /\ solved = Returns(None))
  /\ [][PollIssued /\ polls > 0 =>
           poll_data.status # 1 /\ poll_data.request = NotReady]_vars

\* The second poll answered an error code and the solve returned None.
C17_Witness ==
  /\ polls = 2
  /\ poll_data = [status |-> 0, request |-> "ERROR_CAPTCHA_UNSOLVABLE"]
  /\ solve_pc = "done"
  /\ solved = Returns(None)

\* what C18 says of the submission response and of the start of polling
SubmissionGatesPolling ==
  /\ Len(posted) <= 1
  /\ \A i \in 1..Len(posted) : posted[i] = Submission(challenge)
  /\ Len(posted) = 1 /\ submit_data # NoData /\ submit_data.status # 1 =>
        solve_pc = "done" /\ solved = Returns(None) /\ polls = 0
  /\ solve_pc = "polling" \/ polls > 0 =>
        /\ Len(posted) = 1
        /\ submit_data.status = 1
        /\ task_id = submit_data.request

\* C18 as stated: a solve of any of the four kinds makes exactly one
\* submission POST; a submission response with status != 1 ends it with None
\* and no poll; polling starts only after a submission with status == 1,
\* with that response's request value as the task id.
C18_ExactlyOneSubmission ==
  /\ SubmissionGatesPolling
  /\ solve_pc = "done" => Len(posted) = 1

\* C18, amended: with an API key configured a solve of any of the four kinds
\* makes exactly one submission POST, and with none it returns None without
\* any request; a response with status != 1 ends the solve with None and no
\* poll; polling starts only after a submission with status == 1, with that
\* response's request value as the task id.
C18_OneSubmissionWhenConfigured ==
  /\ SubmissionGatesPolling
  /\ solve_pc = "done" /\ is_configured => Len(posted) = 1
  /\ ~is_configured => posted = <<>> /\ polls = 0
  /\ solve_pc = "done" /\ ~is_configured => solved = Returns(None)

\* A Turnstile submission was refused by the service.
C18_Witness ==
  /\ challenge = "turnstile"
  /\ posted = <<Submission("turnstile")>>
  /\ submit_data.status = 0
  /\ solved = Returns(None)
  /\ polls = 0

(***************************************************************************)
(* Protection detector claims, over SpecDetect.                            *)
(***************************************************************************)
\* a header of r whose name is n, whatever the case it was sent in
HeaderNamed(r, n) == \E i \in 1..Len(r.headers) : Lower(r.headers[i].name) = n

\* a header of r whose name or value has m in it, whatever the case
HeaderMentions(r, m) ==
  \E i \in 1..Len(r.headers) :
     \/ Contains(Lower(r.headers[i].name), m)
     \/ Contains(Lower(r.headers[i].value), m)

\* a cookie set by r whose text has m in it
CookieMentions(r, m) ==
  \E i \in 1..Len(r.headers) :
     /\ Lower(r.headers[i].name) = <<"s","e","t","-","c","o","o","k","i","e">>
     /\ Contains(r.headers[i].value, m)

BodyMentions(r, m) == Contains(Lower(r.text), m)

\* the verdicts in their order of precedence
Verdicts == <<"cloudflare", "akamai", "perimeterx", "datadome",
              "cloudflare", "recaptcha", "hcaptcha", "perimeterx", "unknown", "none">>

\* whether r carries the marker of the i-th verdict
Marked(r, i) ==
  CASE i = 1 -> HeaderNamed(r, <<"c","f","-","r","a","y">>) \/ HeaderNamed(r, <<"c","f","-","c","a","c","h","e","-","s","t","a","t","u","s">>)
    [] i = 2 -> HeaderMentions(r, <<"x","-","a","k","a","m","a","i">>)
    [] i = 3 -> HeaderNamed(r, <<"x","-","p","x">>) \/ CookieMentions(r, <<"_","p","x","h","d">>)
    [] i = 4 -> HeaderMentions(r, <<"d","a","t","a","d","o","m","e">>)
    [] i = 5 -> BodyMentions(r, <<"c","h","a","l","l","e","n","g","e","s",".","c","l","o","u","d","f","l","a","r","e",".","c","o","m">>) \/ BodyMentions(r, <<"c","f","-","b","r","o","w","s","e","r","-","v","e","r","i","f","i","c","a","t","i","o","n">>)
    [] i = 6 -> BodyMentions(r, <<"r","e","c","a","p","t","c","h","a">>)
    [] i = 7 -> BodyMentions(r, <<"h","c","a","p","t","c","h","a">>) \/ BodyMentions(r, <<"h","-","c","a","p","t","c","h","a">>)
    [] i = 8 -> BodyMentions(r, <<"p","e","r","i","m","e","t","e","r","x">>)
    [] i = 9 -> BodyMentions(r, <<"a","c","c","e","s","s"," ","d","e","n","i","e","d">>) \/ BodyMentions(r, <<"b","o","t"," ","d","e","t","e","c","t","e","d">>) \/ BodyMentions(r, <<"p","l","e","a","s","e"," ","v","e","r","i","f","y">>)
    [] i = 10 -> TRUE

FirstMatch(r) ==
  CHOOSE i \in 1..Len(Verdicts) : Marked(r, i) /\ \A j \in 1..(i - 1) : ~Marked(r, j)

Answered == detect_pc = "done" /\ failure = None

\* C19: detect classifies a response by the first match in the order: header
\* markers of Cloudflare, Akamai, PerimeterX, DataDome; body markers of the
\* Cloudflare challenge, reCAPTCHA, hCaptcha, PerimeterX; generic block
\* phrases (Unknown); otherwise None.  A response with a Cloudflare header
\* is classified Cloudflare whatever its body.
C19_FirstMatchInFixedPrecedence ==
  Answered =>
    /\ detected = Returns(Verdicts[FirstMatch(response)])
    /\ Marked(response, 1) => detected = Returns("cloudflare")
    /\ (\E i \in 1..4 : Marked(response, i)) => FirstMatch(response) <= 4

\* A response with a DataDome cookie header and a reCAPTCHA body was
\* classified DataDome.
C19_Witness ==
  /\ Answered
  /\ Marked(response, 4)
  /\ Marked(response, 6)
  /\ \A i \in 1..3 : ~Marked(response, i)
  /\ detected = Returns("datadome")

\* A response with a Cloudflare header and an hCaptcha body was classified
\* Cloudflare.
C19_CloudflareHeaderWitness ==
  /\ Answered
  /\ Marked(response, 1)
  /\ Marked(response, 7)
  /\ detected = Returns("cloudflare")

\* C20: detect never raises: when the probe request fails in transport
\* (timeout, DNS failure, connection reset) it returns Unknown.
C20_TransportFailureGivesUnknown ==
  /\ detected.kind # "raise"
  /\ detect_pc = "done" /\ failure \in TransportFailures =>
        detected = Returns("unknown")

\* The probe timed out and detect returned Unknown.
C20_Witness ==
  /\ detect_pc = "done"
  /\ failure = "httpx.ConnectTimeout"
  /\ detected = Returns("unknown")

(***************************************************************************)
(* Block-signature claim, over SpecCheck.                                  *)
(***************************************************************************)
\* the phrase occurs in the body at offset i, letters compared without case
OccursAt(body, phrase, i) ==
  /\ i + Len(phrase) <= Len(body)
  /\ \A j \in 1..Len(phrase) :
        \/ body[i + j] = phrase[j]
        \/ UpperChar(body[i + j]) = UpperChar(phrase[j])

HasChallengePhrase(body) ==
  \E k \in 1..Len(block_indicators) :
     \E i \in 0..Len(body) : OccursAt(body, block_indicators[k], i)

\* C21: the block-signature check yields Blocked=true exactly when the body
\* has, in any letter case, one of the fixed challenge phrases, whatever the
\* HTTP status of the response: "Just a moment..." is Blocked and ordinary
\* article HTML is not.
C21_BlockedIffBodyHasChallengePhrase ==
  /\ checked # NoResponse => is_blocked = HasChallengePhrase(checked.text)
  /\ checked # NoResponse /\ checked.text = JustAMoment => is_blocked = TRUE
  /\ checked # NoResponse /\ checked.text = ArticleHtml => is_blocked = FALSE

\* A 200 response with the body 'Just a moment...' was found Blocked.
C21_Witness ==
  /\ checked = [status |-> 200, text |-> JustAMoment]
  /\ is_blocked = TRUE

\* A 403 response with ordinary article HTML was found not Blocked.
C21_ArticleWitness ==
  /\ checked = [status |-> 403, text |-> ArticleHtml]
  /\ is_blocked = FALSE

(***************************************************************************)
(* Concurrency-limit claim, over SpecGate.                                 *)
(***************************************************************************)
\* C22: under a concurrency limit L the number of fetches in flight never
\* exceeds L, in the bulk fan-out and in the worker pool, for any number of
\* URLs or jobs and any interleaving; and every submitted fetch is
\* eventually started.
C22_InFlightWithinLimitAndAllStart ==
  /\ [](InFlight <= limit /\ sem >= 0)
  /\ \A u \in 1..MaxUrls : <>(u \in DOMAIN fetches => fetches[u] # "pending")
  /\ <>(queue = 0)

\* More URLs than the limit were submitted, and the limit is reached with
\* fetches still waiting.
C22_Witness ==
  /\ gate_mode = "bulk"
  /\ InFlight = limit
  /\ sem = 0
  /\ \E u \in DOMAIN fetches : fetches[u] = "pending"
  /\ \E u \in DOMAIN fetches : fetches[u] = "done"

\* Every worker of the pool is processing a job and a job is still queued.
C22_WorkerWitness ==
  /\ gate_mode = "worker"
  /\ InFlight = limit
  /\ queue > 0

(***************************************************************************)
(* Order of the steps of a fetch, over SpecFetch.                          *)
(***************************************************************************)
\* The calls smart_scrape has awaited so far, in order: it awaits the
\* scrape() of an engine and nothing else; it calls neither
\* detect_protection, which the module imports, nor a RateLimiter.
Steps == [i \in 1..Len(attempts) |-> [call |-> "scrape", engine |-> attempts[i].engine]]

IsScrape(i) == Steps[i].call = "scrape"

\* C23: in every fetch call the detector classifies the target before the
\* first engine attempt, every engine attempt is preceded by its own
\* RateLimiter.acquire(), and a backoff wait lies between an attempt that is
\* Blocked or fails and the attempt of the next tier.
C23_DetectAcquireAttemptBackoffInOrder ==
  \A i \in 1..Len(Steps) :
     IsScrape(i) =>
       /\ \E j \in 1..(i - 1) : Steps[j].call = "detect_protection"
       /\ i > 1 /\ Steps[i - 1].call = "acquire"
       /\ (\E h \in 1..(i - 1) : IsScrape(h)) =>
             \E b \in 1..(i - 1) :
                /\ Steps[b].call = "backoff"
                /\ \E h \in 1..(b - 1) : IsScrape(h)

(***************************************************************************)
(* Cancellation claim, over SpecCancel.                                    *)
(***************************************************************************)
\* C24: when the caller cancels a fetch while an engine attempt is in flight,
\* at whichever tier, the cancellation reaches that attempt, the call ends
\* as cancelled, not with an earlier tier's error, and no further tier is
\* entered.
C24_CancellationEndsTheFetchAsCancelled ==
  cancelled_at > 0 =>
    /\ attempts[cancelled_at].outcome.exc.name = "CancelledError"
    /\ Len(attempts) = cancelled_at
    /\ pc = "done"
    /\ result.kind = "raise"
    /\ result.exc.name = "CancelledError"

(***************************************************************************)
(* Health-check claim, over SpecHealth.                                    *)
(***************************************************************************)
\* the probes so far that found a working proxy
ProbedWorking == {k \in 1..Len(probes) : probes[k].outcome = "status 200"}

\* C25: check_all probes every proxy of the pool exactly once, one after
\* the other, and its report accounts for every probe, a raising one
\* included: working + failed = total = the number of proxies in the pool, and
\* banned = the size of the ban set.
C25_CheckAllAccountsForEveryProbe ==
  /\ [](/\ \A k \in 1..Len(probes) : probes[k].proxy = k
        /\ Len(probes) <= Len(proxies)
        /\ check_pc # "idle" =>
              /\ working = Cardinality(ProbedWorking)
              /\ failed = Len(probes) - Cardinality(ProbedWorking)
        /\ check_pc = "done" =>
              /\ report.working = working
              /\ report.failed = failed
              /\ report.working + report.failed = report.total
              /\ report.total = Len(probes))
  /\ [][check_pc # "done" /\ check_pc' = "done" =>
           /\ report'.total = Len(proxies')
           /\ report'.banned = Cardinality(banned')]_vars

\* check_all has returned its report on a pool of three proxies, one probe
\* having raised and one having succeeded, with a ban in the ban set.
C25_Witness ==
  /\ check_pc = "done"
  /\ report.total = 3
  /\ report.working >= 1
  /\ report.banned = 1
  /\ \E k \in 1..Len(probes) : probes[k].outcome = "raises"

(***************************************************************************)
(* Properties of result deduplication.                                     *)
(***************************************************************************)
\* The URL with what the claim calls irrelevant taken away: letter case,
\* the query string, and the slash that ends the path.
SameUrlKey(u) == WithoutTrailingSlash(BeforeQuery(Lower(u)))

\* C26: the list returned by _deduplicate never holds two results whose
\* URLs differ only by letter case, a trailing slash and/or a query string,
\* a URL with both a trailing slash and a query string included.
C26_NoTwoResultsOfOneUrl ==
  dedup_pc = "done" =>
    \A i \in 1..Len(unique) : \A j \in 1..Len(unique) :
       i # j => SameUrlKey(unique[i].url) # SameUrlKey(unique[j].url)

(***************************************************************************)
(* The rate limiter as a token bucket, over SpecSingleCaller.              *)
(***************************************************************************)
\* C27: for a single caller the number of acquire() calls completed by time
\* t since construction never exceeds burst_limit + t * rpm / 60.
C27_CompletedWithinBucketBudget ==
  acquired * TokenScale <= burst * TokenScale + now * rpm

(***************************************************************************)
(* Properties of the Cloudflare bypass, over SpecBypass.                   *)
(***************************************************************************)
\* C28: a page returned by bypass is never a Cloudflare challenge page
\* according to _is_cf_challenge, whichever strategy produced it.
C28_ReturnedPageIsNoChallenge ==
  cf_result.kind = "return" => ~_is_cf_challenge(cf_result.html)

(***************************************************************************)
(* Clearing bans and bans by URL, over SpecPool.                           *)
(***************************************************************************)
\* C29: clear_bans() empties the ban set and changes no proxy and no pool
\* membership; no pool operation removes a proxy or lowers its fail_count;
\* so get_proxy never returns a proxy whose fail_count is >= 5, also when
\* clear_bans() has lifted its ban.
C29_ClearBansLeavesFailedProxiesIneligible ==
  /\ [][/\ last'.op = "clear_bans" =>
             /\ banned' = {}
             /\ proxies' = proxies
             /\ notPoolVars' = notPoolVars
         /\ Len(proxies') >= Len(proxies)
         /\ \A i \in 1..Len(proxies) :
               proxies'[i].fail_count >= proxies[i].fail_count]_vars
  /\ [](last.op = "get_proxy" /\ last.ret # 0 =>
          proxies[last.ret].fail_count < 5)
  /\ [](\A i \in 1..Len(proxies) :
          proxies[i].fail_count >= 5 =>
            \A c \in Countries, pr \in Protocols : i \notin available(c, pr))

\* After clear_bans() a get_proxy call that asked for the protocol of a
\* proxy with five failures, the only one of that protocol, has returned
\* None.
C29_Witness ==
  /\ last.op = "get_proxy"
  /\ last.country = None
  /\ last.ret = 0
  /\ banned = {}
  /\ \E i \in 1..Len(proxies) :
       /\ proxies[i].protocol = last.protocol
       /\ proxies[i].fail_count >= 5

\* the same protocol, host and port (the model's proxies have no credentials)
SameUrl(p, q) == p.protocol = q.protocol /\ p.host = q.host

\* C30: the mark_failure that brings a proxy's fail_count to 5 or more makes
\* every proxy of the pool with the same URL ineligible for get_proxy,
\* whatever its own fail_count, and get_proxy does not return it while the
\* ban stands; mark_failure changes no other proxy's counters.
C30_BanCoversEveryProxyOfTheUrl ==
  [][/\ last'.op = "mark_failure" =>
          /\ Len(proxies') = Len(proxies)
          /\ \A j \in 1..Len(proxies) : j # last'.proxy => proxies'[j] = proxies[j]
          /\ proxies'[last'.proxy].fail_count >= 5 =>
                \A j \in 1..Len(proxies') :
                   SameUrl(proxies'[j], proxies'[last'.proxy]) =>
                     \A c \in Countries, pr \in Protocols : j \notin available(c, pr)'
      /\ \A i \in 1..Len(proxies), j \in 1..Len(proxies) :
           (/\ SameUrl(proxies[i], proxies[j])
            /\ proxies[i].fail_count >= 5
            /\ url(proxies[i]) \in banned
            /\ last'.op # "clear_bans")
           => ~(last'.op = "get_proxy" /\ last'.ret = j)]_vars

\* Two proxies of the pool have one URL; one has five failures, the other
\* fewer, and a get_proxy call for their protocol has returned None.
C30_Witness ==
  /\ last.op = "get_proxy"
  /\ last.country = None
  /\ last.ret = 0
  /\ \E i \in 1..Len(proxies), j \in 1..Len(proxies) :
       /\ i # j
       /\ SameUrl(proxies[i], proxies[j])
       /\ proxies[i].protocol = last.protocol
       /\ proxies[i].fail_count = 5
       /\ proxies[j].fail_count < 5
       /\ proxies[i].country # proxies[j].country
       /\ url(proxies[i]) \in banned

=============================================================================
